---- MODULE Spec2Model ----
(***************************************************************************)
(* A model of the query-processing plugins of mosdns (LekaMika fork):      *)
(* the redis-backed DNS response cache (plugin/executable/cache/           *)
(* redis_cache) with lazy refresh behind a single-flight group, and the    *)
(* black-hole response interceptors (plugin/executable/black_hole).        *)
(*                                                                         *)
(* The clock counts whole seconds.                                         *)
(***************************************************************************)
EXTENDS Integers, Sequences, FiniteSets, TLC

VARIABLES
    \* ---- redis_cache plugin and its backend ----
    now,        \* wall clock, in seconds
    args,       \* RedisCache.args with the downstream chain: [lazy, storeOnly, icpt]
    inbound,    \* the question sections the listener's clients send
    store,      \* the redis keyspace: key -> NoEntry or [item, exp]
    sfm,        \* lazyUpdateSF: the keys with a call registered
    tasks,      \* lazy-refresh goroutines: slot -> [pc, key, q, ctx, err, saved]
    pc,         \* per in-flight Exec call: position
    qry,        \* per Exec call: qCtx.Q()
    ctx,        \* per Exec call: the query context [R, orig, tag]
    loc,        \* per Exec call: locals [key, hit, cached, item, readAt, chainErr,
                \*   saved, ret]
    started,    \* number of queries accepted so far
    redisUp,    \* the redis server answers within the client's timeout
    \* ---- black-hole interceptors on their own ----
    bhCfg,      \* the plugin pair under test: [bh, mbh]
    bhQ,        \* the query
    bhCtx,      \* the query context [R, orig, tag]
    bhLast,     \* the last Exec applied and the context it was applied to
    bhSteps,    \* number of Exec calls so far
    \* ---- reverse_lookup_redis_cache ----
    rlArgs,     \* ReverseLookupRedisCache.args: [readOnly]
    rlStore,    \* the redis keyspace of the plugin: address text -> entry
    rlNow,      \* wall clock, in seconds
    rlLast,     \* the last Exec: its query, when it ran, whether the chain ran,
                \*   the context it left and the error it returned
    rlSteps,    \* number of Exec calls so far
    \* ---- clean_up_ecs and dual_stack_ecs_handler ----
    ecsQ,       \* the question of the query: [qtype, qclass]
    ecsOpt,     \* qCtx.QOpt().Option: the EDNS0 options of the query
    ecsLast,    \* the last plugin applied: [op, before, panicked]
    ecsSteps,   \* number of plugin calls so far
    \* ---- dnsmasq_dhcp_leases ----
    lsArgs,     \* Args: [Suffixs]
    lsLeases,   \* l.leases
    lsPrev,     \* the value of l.leases before the last batch
    lsLists,    \* l.ipv4Leases and l.ipv6Leases: [v4, v6] slices
    lsMatcher,  \* l.matcher: names to lease groups
    lsBuild,    \* the watcher goroutine inside buildMatchers: [pc, i, ipMap]
    lsWarm,     \* the questions whose responses the last build put in the cache
    lsLast,     \* the last query handled by Exec: [op, q, r, old, new]
    lsRebuilds, \* number of batches received from the watcher
    \* ---- netlist ----
    nlE,        \* list.e: the stored prefixes
    nlSorted,   \* list.sorted
    nlInserted, \* every prefix appended so far
    nlLast,     \* the last Match: [op, addr, got]
    \* ---- redis_cache: one entry, saved and read ----
    enLast,      \* the last call on the entry: [op, ...]
    \* ---- memory_cache_backend ----
    mcM,        \* MemoryCache.m: key -> NoElem or [v, expirationTime]
    mcClosed,   \* MemoryCache.closed, and closeNotify is closed
    mcNow,      \* wall clock, in cleaner intervals
    mcTick,     \* ticker.C: the time of the tick waiting in the channel, or NoTick
    mcGc,       \* the gcLoop goroutine: "select" or "returned"
    mcLast,      \* the last call: [op, ...]
    mcGet,      \* the Get between its two map operations: NoGet or [key, e]
    \* ---- geoip data providers ----
    gpFile,     \* the decoded geo IP file: a sequence of [code, cidr]
    gpCode,     \* the country code the plugin is configured with
    gpLast,      \* the last load: [loader, err, matcher]
    \* ---- geofile: find ----
    fdRecs,     \* the records the geo file was written from: [code, payload]
    fdData,     \* the bytes of the geo file
    fdCode,     \* the code looked for
    fdLast,      \* the last find: [op, got]
    \* ---- geofile: the memoised loads ----
    gfBuild,    \* which readAsset the package is built with
    gfFileCache, \* FileCache / fileCache: file -> bytes or NilBytes
    gfIPCache,  \* IPCache: <<file, code>> -> the decoded entry or FindNil
    gfReads,    \* calls of readFile that opened a file
    gfLoaded,   \* files read with success since the last Release
    gfLast,      \* the last call: [op, ...]
    \* ---- redis_cache: the keys of two queries ----
    kyA,        \* a single-question query
    kyB,        \* another one
    kyLast,      \* the keys of the two: [op, a, b]
    \* ---- memory_cache: saveRespToCache ----
    msLazy,     \* memory cache: lazy_cache_ttl
    msM,        \* the backend: NoElem or [v, life], life the duration handed to Store
    msLast,      \* the last saveRespToCache: [op, ...]
    \* ---- redis_cache_backend: shared clients ----
    rbClients,  \* redis_cache_backend: the clients made so far, each [addr, open]
    rbBackends, \* the package map backends: URL -> index of its client, 0 for none
    rbInst,     \* the RedisCache instances: NoInst or [addr, client, closed]
    rbData,     \* the server of each URL: the set of keys it holds
    rbLast,      \* the last call: [op, ...]
    \* ---- geoip: NewV2rayGeoip with files and inline ips ----
    giFiles,    \* geoip provider: the CIDRs each "file:code" of args.Files yields
    giIps,      \* args.Ips, parsed
    giMade,     \* the provider built: [made, ...]
    giLast,      \* the last call: [op, ...]
    \* ---- pkg/redis_cache: the JSON-encoded cache ----
    jcLazy,     \* pkg/redis_cache: lazy_cache_ttl
    jcNow,      \* the clock, in seconds
    jcEntry,    \* the key of the question on the server: NoEntry or [present, v, volatile, exp]
    jcLast      \* the last call: [op, ...]

cacheVars == <<now, args, inbound, store, sfm, tasks, pc, qry, ctx, loc, started,
               redisUp>>
bhVars    == <<bhCfg, bhQ, bhCtx, bhLast, bhSteps>>
rlVars    == <<rlArgs, rlStore, rlNow, rlLast, rlSteps>>
ecsVars   == <<ecsQ, ecsOpt, ecsLast, ecsSteps>>
lsVars    == <<lsArgs, lsLeases, lsPrev, lsLists, lsMatcher, lsBuild, lsWarm, lsLast, lsRebuilds>>
nlVars    == <<nlE, nlSorted, nlInserted, nlLast>>
enVars    == <<enLast>>
mcVars    == <<mcM, mcClosed, mcNow, mcTick, mcGc, mcLast, mcGet>>
gpVars    == <<gpFile, gpCode, gpLast>>
fdVars    == <<fdRecs, fdData, fdCode, fdLast>>
gfVars    == <<gfBuild, gfFileCache, gfIPCache, gfReads, gfLoaded, gfLast>>
kyVars    == <<kyA, kyB, kyLast>>
msVars    == <<msLazy, msM, msLast>>
rbVars    == <<rbClients, rbBackends, rbInst, rbData, rbLast>>
giVars    == <<giFiles, giIps, giMade, giLast>>
jcVars    == <<jcLazy, jcNow, jcEntry, jcLast>>
vars      == <<cacheVars, bhVars, rlVars, ecsVars, lsVars, nlVars, enVars, mcVars, gpVars, fdVars, gfVars, kyVars, msVars, rbVars, giVars, jcVars>>

\* What the actions of one plugin leave alone: the state of the others.
notCache == <<bhVars, rlVars, ecsVars, lsVars, nlVars, enVars, mcVars, gpVars, fdVars, gfVars, kyVars, msVars, rbVars, giVars, jcVars>>
notBh    == <<cacheVars, rlVars, ecsVars, lsVars, nlVars, enVars, mcVars, gpVars, fdVars, gfVars, kyVars, msVars, rbVars, giVars, jcVars>>
notRl    == <<cacheVars, bhVars, ecsVars, lsVars, nlVars, enVars, mcVars, gpVars, fdVars, gfVars, kyVars, msVars, rbVars, giVars, jcVars>>
notEcs   == <<cacheVars, bhVars, rlVars, lsVars, nlVars, enVars, mcVars, gpVars, fdVars, gfVars, kyVars, msVars, rbVars, giVars, jcVars>>
notLs    == <<cacheVars, bhVars, rlVars, ecsVars, nlVars, enVars, mcVars, gpVars, fdVars, gfVars, kyVars, msVars, rbVars, giVars, jcVars>>
notNl    == <<cacheVars, bhVars, rlVars, ecsVars, lsVars, enVars, mcVars, gpVars, fdVars, gfVars, kyVars, msVars, rbVars, giVars, jcVars>>
notEn    == <<bhVars, rlVars, ecsVars, lsVars, nlVars, mcVars, gpVars, fdVars, gfVars, kyVars, msVars, rbVars, giVars, jcVars>>
notMc    == <<cacheVars, bhVars, rlVars, ecsVars, lsVars, nlVars, enVars, gpVars, fdVars, gfVars, kyVars, msVars, rbVars, giVars, jcVars>>
notGp    == <<cacheVars, bhVars, rlVars, ecsVars, lsVars, nlVars, enVars, mcVars, fdVars, gfVars, kyVars, msVars, rbVars, giVars, jcVars>>
notFd    == <<cacheVars, bhVars, rlVars, ecsVars, lsVars, nlVars, enVars, mcVars, gpVars, gfVars, kyVars, msVars, rbVars, giVars, jcVars>>
notGf    == <<cacheVars, bhVars, rlVars, ecsVars, lsVars, nlVars, enVars, mcVars, gpVars, fdVars, kyVars, msVars, rbVars, giVars, jcVars>>
notKy    == <<cacheVars, bhVars, rlVars, ecsVars, lsVars, nlVars, enVars, mcVars, gpVars, fdVars, gfVars, msVars, rbVars, giVars, jcVars>>
notMs    == <<cacheVars, bhVars, rlVars, ecsVars, lsVars, nlVars, enVars, mcVars, gpVars, fdVars, gfVars, kyVars, rbVars, giVars, jcVars>>
notRb    == <<cacheVars, bhVars, rlVars, ecsVars, lsVars, nlVars, enVars, mcVars, gpVars, fdVars, gfVars, kyVars, msVars, giVars, jcVars>>
notGi    == <<cacheVars, bhVars, rlVars, ecsVars, lsVars, nlVars, enVars, mcVars, gpVars, fdVars, gfVars, kyVars, msVars, rbVars, jcVars>>
notJc    == <<cacheVars, bhVars, rlVars, ecsVars, lsVars, nlVars, enVars, mcVars, gpVars, fdVars, gfVars, kyVars, msVars, rbVars, giVars>>

-----------------------------------------------------------------------------
(* Bounds of the model *)

MaxTime     == 2    \* the clock stops after this many seconds
MaxQueries  == 2    \* queries accepted in one behaviour
MaxBhSteps  == 2    \* interceptor calls on one context
MaxRlTime   == 2    \* the reverse-lookup clock stops after this many seconds
MaxRlSteps  == 2    \* reverse-lookup Exec calls in one behaviour
MaxOpts     == 3    \* EDNS0 options a client puts in one query
MaxEcsSteps == 2    \* ECS plugin calls on one query
MaxLeases   == 2    \* leases in one leases file
MaxRebuilds == 1    \* batches the file watcher delivers
MaxPrefixes == 3    \* prefixes appended to one net list
AddrWidth   == 2    \* bits of an address of the net list

Procs     == {1, 2}         \* concurrent Exec calls (one goroutine per packet)
TaskSlots == {1, 2}         \* goroutines available to DoChan

-----------------------------------------------------------------------------
(* DNS messages: the fields of dns.Msg the plugins read or write.          *)
(* ptr names the Go object (pointer identity), not part of the wire form.  *)

NOERROR  == 0
SERVFAIL == 2
NXDOMAIN == 3

NoMsg == [ptr |-> "nil"]

RR(t, d, ttl) == [rrtype |-> t, data |-> d, ttl |-> ttl]

Msg(p, id, rcode, tc, answer, ns) ==
    [ptr |-> p, id |-> id, rcode |-> rcode, tc |-> tc,
     answer |-> answer, ns |-> ns, extra |-> <<>>]

Question(name, qtype) == [name |-> name, qtype |-> qtype, qclass |-> "IN"]

Query(id, question) == [id |-> id, question |-> question]

NoCtx == [R |-> NoMsg, orig |-> NoMsg, tag |-> ""]

Min(a, b) == IF a <= b THEN a ELSE b
Max(a, b) == IF a >= b THEN a ELSE b

Sections(m) == m.answer \o m.ns \o m.extra

-----------------------------------------------------------------------------
(* black_hole and resp_match_black_hole *)

BlackHoleTtl == 300

\* A black_hole plugin is [tag, ipv4, ipv6]; ipv4 and ipv6 are the parsed
\* address lists in configuration order.
BlackHoleAnswer(t, addrs) ==
    [i \in 1..Len(addrs) |-> RR(t, addrs[i], BlackHoleTtl)]

BlackHoleResponse(b, q) ==
    IF Len(q.question) # 1 THEN NoMsg
    ELSE LET qtype == q.question[1].qtype
         IN  IF qtype = "A" /\ Len(b.ipv4) > 0
               THEN Msg("bh", q.id, NOERROR, FALSE,
                        BlackHoleAnswer("A", b.ipv4), <<>>)
             ELSE IF qtype = "AAAA" /\ Len(b.ipv6) > 0
               THEN Msg("bh", q.id, NOERROR, FALSE,
                        BlackHoleAnswer("AAAA", b.ipv6), <<>>)
             ELSE NoMsg

\* Variant: the previous response is not recorded.
Intercept_NoOrig(c, r, tag) == [R |-> r, orig |-> c.orig, tag |-> tag]

\* query_context setters as the interceptors call them: the previous
\* response is kept only when there was one, the tag is always recorded.
Intercept(c, r, tag) ==
    [R    |-> r,
     orig |-> IF c.R # NoMsg THEN c.R ELSE c.orig,
     tag  |-> tag]

BlackHoleExec(b, c, q) ==
    LET r == BlackHoleResponse(b, q)
    IN  IF r # NoMsg THEN Intercept(c, r, b.tag) ELSE c

\* One netlist.Matcher is the set of addresses it matches, one
\* domain.Matcher the set of names it matches.
\* Variant: only A records are looked at.
matchRespAddr_OnlyA(c, m) ==
    /\ c.R # NoMsg
    /\ \E i \in 1..Len(c.R.answer) :
          /\ c.R.answer[i].rrtype = "A"
          /\ c.R.answer[i].data \in m

matchRespAddr(c, m) ==
    /\ c.R # NoMsg
    /\ \E i \in 1..Len(c.R.answer) :
          /\ c.R.answer[i].rrtype \in {"A", "AAAA"}
          /\ c.R.answer[i].data \in m

matchesRespAddr(c, ms) == \E j \in 1..Len(ms) : matchRespAddr(c, ms[j])

matchCName(c, m) ==
    /\ c.R # NoMsg
    /\ \E i \in 1..Len(c.R.answer) :
          /\ c.R.answer[i].rrtype = "CNAME"
          /\ c.R.answer[i].data \in m

matchesCName(c, ms) == \E j \in 1..Len(ms) : matchCName(c, ms[j])

\* A resp_match_black_hole plugin is [tag, nm, dm, blackHole].
MatchBlackHoleExec(b, c, q) ==
    IF matchesCName(c, b.dm) \/ matchesRespAddr(c, b.nm)
      THEN LET r == BlackHoleResponse(b.blackHole, q)
           IN  IF r # NoMsg THEN Intercept(c, r, b.tag) ELSE c
      ELSE c

-----------------------------------------------------------------------------
(* The interceptors on their own: any query, any prior response, any       *)
(* configuration; the two Exec methods are applied in any order.           *)

Good4    == "203.0.113.1"
Bad4     == "198.51.100.7"
Bad6     == "2001:db8::7"
Zero4    == "0.0.0.0"
Sink4    == "127.0.0.1"
Zero6    == "::"
BadName  == "ads.example."
GoodName == "cdn.example."
QName    == "bad.example."

BhQuestions ==
    { <<Question(QName, "A")>>, <<Question(QName, "AAAA")>>,
      <<Question(QName, "TXT")>>, <<Question(QName, "A"), Question(QName, "AAAA")>> }

BhAnswers ==
    { <<RR("A", Good4, 60)>>,
      <<RR("A", Bad4, 60)>>,
      <<RR("A", Good4, 60), RR("AAAA", Bad6, 60)>>,
      <<RR("CNAME", BadName, 60), RR("A", Good4, 60)>>,
      <<RR("CNAME", GoodName, 60), RR("A", Good4, 60)>>,
      <<RR("TXT", "v=spf1", 60)>>,
      <<>> }

BhPlugins ==
    { [bh  |-> [tag |-> "bh", ipv4 |-> v4, ipv6 |-> v6],
       mbh |-> [tag |-> "rm", nm |-> nm, dm |-> dm,
                blackHole |-> [tag |-> "rm@black_hole", ipv4 |-> v4, ipv6 |-> v6]]] :
      v4 \in {<<>>, <<Zero4>>, <<Zero4, Sink4>>},
      v6 \in {<<>>, <<Zero6>>},
      nm \in {<<>>, <<{Bad4}>>, <<{Bad6}, {Bad4}>>},
      dm \in {<<>>, <<{BadName}>>} }

BhIdle == [op |-> "none", before |-> NoCtx]

BhInit ==
    /\ bhCfg \in BhPlugins
    /\ bhQ \in {Query(7, qs) : qs \in BhQuestions}
    /\ bhCtx \in {NoCtx} \cup
                 { [R |-> Msg("up", 7, NOERROR, FALSE, a, <<>>),
                    orig |-> NoMsg, tag |-> ""] : a \in BhAnswers }
    /\ bhLast = BhIdle
    /\ bhSteps = 0

BhBlackHole ==
    /\ bhSteps < MaxBhSteps
    /\ bhCtx' = BlackHoleExec(bhCfg.bh, bhCtx, bhQ)
    /\ bhLast' = [op |-> "black_hole", before |-> bhCtx]
    /\ bhSteps' = bhSteps + 1
    /\ UNCHANGED <<bhCfg, bhQ>>

BhMatchBlackHole ==
    /\ bhSteps < MaxBhSteps
    /\ bhCtx' = MatchBlackHoleExec(bhCfg.mbh, bhCtx, bhQ)
    /\ bhLast' = [op |-> "resp_match", before |-> bhCtx]
    /\ bhSteps' = bhSteps + 1
    /\ UNCHANGED <<bhCfg, bhQ>>

BhOff ==
    /\ bhCfg = [bh |-> [tag |-> "bh", ipv4 |-> <<>>, ipv6 |-> <<>>],
                mbh |-> [tag |-> "rm", nm |-> <<>>, dm |-> <<>>,
                         blackHole |-> [tag |-> "rm@black_hole", ipv4 |-> <<>>, ipv6 |-> <<>>]]]
    /\ bhQ = Query(0, <<>>)
    /\ bhCtx = NoCtx
    /\ bhLast = BhIdle
    /\ bhSteps = 0

-----------------------------------------------------------------------------
(* dnsutils: TTL helpers *)

RECURSIVE MinTtlOf(_)
MinTtlOf(rrs) ==
    IF Len(rrs) = 1 THEN rrs[1].ttl
    ELSE Min(rrs[1].ttl, MinTtlOf(Tail(rrs)))

\* The minimal TTL over Answer, Ns and Extra; 0 for a message with no record.
GetMinimalTTL(m) == IF Sections(m) = <<>> THEN 0 ELSE MinTtlOf(Sections(m))

\* Every record's TTL less delta, clamped at 0.
SubtractRRs(rrs, delta) ==
    [i \in 1..Len(rrs) |-> [rrs[i] EXCEPT !.ttl = Max(rrs[i].ttl - delta, 0)]]

SubtractTTL(m, delta) ==
    [m EXCEPT !.answer = SubtractRRs(m.answer, delta),
              !.ns = SubtractRRs(m.ns, delta),
              !.extra = SubtractRRs(m.extra, delta)]

SetRRs(rrs, ttl) == [i \in 1..Len(rrs) |-> [rrs[i] EXCEPT !.ttl = ttl]]

SetTTL(m, ttl) ==
    [m EXCEPT !.answer = SetRRs(m.answer, ttl), !.ns = SetRRs(m.ns, ttl),
              !.extra = SetRRs(m.extra, ttl)]

-----------------------------------------------------------------------------
(* redis_cache: configuration, key, backend *)

KeepTTL          == -1
ExpiredMsgTtl    == 5
NameErrorTtl     == 30
ServerFailureTtl == 5
maxEmptyAnswerTtl == 300

LazyTtlCfg == 3     \* a positive lazy_cache_ttl, longer than the records' TTLs

\* The plugins that may follow the cache in the sequence.
CacheBh  == [tag |-> "bh", ipv4 |-> <<Zero4>>, ipv6 |-> <<>>]
CacheMbh == [tag |-> "rm", nm |-> <<{Bad4}>>, dm |-> <<>>,
             blackHole |-> [tag |-> "rm@black_hole", ipv4 |-> <<Zero4>>, ipv6 |-> <<>>]]

Arg(lazy, storeOnly, icpt) == [lazy |-> lazy, storeOnly |-> storeOnly, icpt |-> icpt]

\* The configurations explored: lazy_cache_ttl off and on.
Args == { Arg(0, FALSE, "none"), Arg(LazyTtlCfg, FALSE, "none") }

\* The types and classes that have an entry in dns.TypeToString and
\* dns.ClassToString, among those of the model. A type or class without a
\* name is written TYPEn or CLASSn here.
NamedTypes == {"A", "AAAA", "CNAME", "PTR", "SOA", "TXT"}
NamedClasses == {"IN", "CH"}

\* dns.TypeToString[t] / dns.ClassToString[c]: a map lookup, "" for a key
\* the map does not hold.
TypeToString(t)  == IF t \in NamedTypes THEN t ELSE ""
ClassToString(c) == IF c \in NamedClasses THEN c ELSE ""

\* The question the key is taken from is Question[0], whatever len(Question) is;
\* the caller sees a runtime panic when there is none.
getMsgKey(q) ==
    LET question == q.question[1]
    IN  <<TypeToString(question.qtype), ClassToString(question.qclass), question.name>>

EmptyKey == <<>>

CacheQuestions ==
    { <<>>, <<Question(QName, "A")>>, <<Question(QName, "A"), Question(QName, "TXT")>> }

Keys == { getMsgKey(Query(0, qs)) : qs \in CacheQuestions \ {<<>>} }

NoItem  == [resp |-> NoMsg]
NoEntry == [present |-> FALSE]

\* json.Marshal writes every exported field of dns.Msg; the Go pointer is
\* not part of the value.
marshalItem(resp, storedTime, expirationTime, tag) ==
    [resp |-> [resp EXCEPT !.ptr = "json"], StoredTime |-> storedTime,
     ExpirationTime |-> expirationTime, BlockHoleTag |-> tag]

\* Decoding allocates a new message.
unmarshalItem(v) == [v EXCEPT !.resp.ptr = "cached"]

\* SET key value [EX ttl | KEEPTTL]: KEEPTTL keeps the expiry the key has, and
\* a key that does not exist gets none.
RedisSet(st, key, v, cacheTtl) ==
    [st EXCEPT ![key] =
        IF cacheTtl = KeepTTL
          THEN IF st[key].present
                 THEN [st[key] EXCEPT !.v = v]
                 ELSE [present |-> TRUE, v |-> v, volatile |-> FALSE, exp |-> 0]
          ELSE [present |-> TRUE, v |-> v, volatile |-> TRUE,
                exp |-> now + cacheTtl]]

\* Keys whose expiry has passed are gone.
RedisExpire(st, t) ==
    [k \in DOMAIN st |->
        IF st[k].present /\ st[k].volatile /\ st[k].exp <= t THEN NoEntry ELSE st[k]]

\* Variant: a failed Get answers from the keyspace all the same.
Get_Deaf(st) == st

\* backend.Get: what the plugin sees of the keyspace. A failed GET (timeout,
\* connection error) is logged and reported as ok = false for every key.
Get(st) == IF redisUp THEN st ELSE [k \in DOMAIN st |-> NoEntry]

\* backend.Store: the keyspace after a SET that would give new. A failed SET
\* is logged and nothing else.
Store(st, new) == IF redisUp THEN new ELSE st

-----------------------------------------------------------------------------
(* redis_cache: saveRespToCache and getRespFromCache *)

\* Variant: the empty answer keeps the minimal TTL as it is.
msgTtlOf_NoCap(r) ==
    CASE r.rcode = NXDOMAIN -> NameErrorTtl
      [] r.rcode = SERVFAIL -> ServerFailureTtl
      [] r.rcode = NOERROR  -> GetMinimalTTL(r)
      [] OTHER -> 0

msgTtlOf(r) ==
    CASE r.rcode = NXDOMAIN -> NameErrorTtl
      [] r.rcode = SERVFAIL -> ServerFailureTtl
      [] r.rcode = NOERROR  ->
            IF Len(r.answer) = 0 THEN Min(GetMinimalTTL(r), maxEmptyAnswerTtl)
            ELSE GetMinimalTTL(r)
      [] OTHER -> 0

\* Variant: lazy_cache_ttl decides for every Rcode.
cacheTtlOf_AnyRcode(r, lazyCacheTtl) ==
    IF r.rcode \notin {NXDOMAIN, SERVFAIL, NOERROR} THEN 0
    ELSE IF lazyCacheTtl = KeepTTL THEN KeepTTL
    ELSE IF lazyCacheTtl > 0 /\ Len(r.answer) > 0 THEN lazyCacheTtl
    ELSE msgTtlOf(r)

cacheTtlOf(r, lazyCacheTtl) ==
    CASE r.rcode = NXDOMAIN -> NameErrorTtl
      [] r.rcode = SERVFAIL -> ServerFailureTtl
      [] r.rcode = NOERROR  ->
            IF Len(r.answer) = 0
              THEN IF lazyCacheTtl = KeepTTL THEN KeepTTL ELSE msgTtlOf(r)
            ELSE IF lazyCacheTtl = KeepTTL THEN KeepTTL
            ELSE IF lazyCacheTtl > 0 THEN lazyCacheTtl
            ELSE msgTtlOf(r)
      [] OTHER -> 0

\* Variant: a truncated response is saved like any other.
saveSkipped_Truncated(r, lazyCacheTtl) ==
    \/ msgTtlOf(r) <= 0
    \/ (cacheTtlOf(r, lazyCacheTtl) <= 0 /\ cacheTtlOf(r, lazyCacheTtl) # KeepTTL)

saveSkipped(r, lazyCacheTtl) ==
    \/ r.tc
    \/ msgTtlOf(r) <= 0
    \/ (cacheTtlOf(r, lazyCacheTtl) <= 0 /\ cacheTtlOf(r, lazyCacheTtl) # KeepTTL)

\* The keyspace after saveRespToCache(msgKey, r, lazyCacheTtl, blackHoleTag).
saveRespToCache(st, msgKey, r, lazyCacheTtl, blackHoleTag) ==
    IF saveSkipped(r, lazyCacheTtl) THEN st
    ELSE RedisSet(st, msgKey,
                  marshalItem(r, now, now + msgTtlOf(r), blackHoleTag),
                  cacheTtlOf(r, lazyCacheTtl))

\* Whole seconds between two instants: uint32(now.Sub(storedTime).Seconds()).
Seconds(from, to) == to - from

\* Variant: a fresh hit returns the TTLs as stored.
getRespFromCache_NoAging(st, msgKey, lazyCacheEnabled, lazyTtl) ==
    LET ok   == st[msgKey].present
        item == IF ok THEN unmarshalItem(st[msgKey].v) ELSE NoItem
    IN  IF ok /\ now < item.ExpirationTime
          THEN [resp |-> item.resp, lazyHit |-> FALSE, item |-> item]
        ELSE IF ok /\ lazyCacheEnabled
          THEN [resp |-> SetTTL(item.resp, lazyTtl), lazyHit |-> TRUE, item |-> item]
        ELSE [resp |-> NoMsg, lazyHit |-> FALSE, item |-> NoItem]

\* Variant: an expired entry is returned whether lazy caching is on or not.
getRespFromCache_AlwaysLazy(st, msgKey, lazyCacheEnabled, lazyTtl) ==
    LET ok   == st[msgKey].present
        item == IF ok THEN unmarshalItem(st[msgKey].v) ELSE NoItem
    IN  IF ok /\ now < item.ExpirationTime
          THEN [resp |-> SubtractTTL(item.resp, Seconds(item.StoredTime, now)),
                lazyHit |-> FALSE, item |-> item]
        ELSE IF ok
          THEN [resp |-> SetTTL(item.resp, lazyTtl), lazyHit |-> TRUE, item |-> item]
        ELSE [resp |-> NoMsg, lazyHit |-> FALSE, item |-> NoItem]

\* [resp, lazyHit, item]: item is the entry the answer was made from.
getRespFromCache(st, msgKey, lazyCacheEnabled, lazyTtl) ==
    LET ok   == st[msgKey].present
        item == IF ok THEN unmarshalItem(st[msgKey].v) ELSE NoItem
    IN  IF ok /\ now < item.ExpirationTime
          THEN [resp |-> SubtractTTL(item.resp, Seconds(item.StoredTime, now)),
                lazyHit |-> FALSE, item |-> item]
        ELSE IF ok /\ lazyCacheEnabled
          THEN [resp |-> SetTTL(item.resp, lazyTtl), lazyHit |-> TRUE, item |-> item]
        ELSE [resp |-> NoMsg, lazyHit |-> FALSE, item |-> NoItem]

-----------------------------------------------------------------------------
(* The rest of the sequence after the cache: a forwarder, then at most one *)
(* black-hole interceptor. next.ExecNext touches only the context given.   *)

UpstreamAnswers(q) ==
    { Msg("up", q.id, NOERROR, FALSE, <<RR("A", Bad4, 2)>>, <<>>),
      Msg("up", q.id, NOERROR, FALSE, <<RR("A", Good4, 1)>>, <<>>),
      Msg("up", q.id, SERVFAIL, FALSE, <<>>, <<RR("SOA", "ns.example.", 1)>>) }

\* What the forwarder does with the context: leave it (gated off, or no
\* answer), fail, or set a new response.
ForwardOutcomes(q) ==
    {[kind |-> "leave"], [kind |-> "error"]} \cup
    {[kind |-> "answer", msg |-> m] : m \in UpstreamAnswers(q)}

Interceptor(a, c, q) ==
    CASE a.icpt = "black_hole" -> BlackHoleExec(CacheBh, c, q)
      [] a.icpt = "resp_match" -> MatchBlackHoleExec(CacheMbh, c, q)
      [] OTHER -> c

\* [ctx, err] after next.ExecNext(ctx, qCtx): a failing step aborts the walk.
ExecNext(a, c, q, o) ==
    IF o.kind = "error" THEN [ctx |-> c, err |-> TRUE]
    ELSE LET c1 == IF o.kind = "leave" THEN c ELSE [c EXCEPT !.R = o.msg]
         IN  [ctx |-> Interceptor(a, c1, q), err |-> FALSE]

-----------------------------------------------------------------------------
(* reverse_lookup_redis_cache                                              *)

\* An address as the plugin meets it. text is its canonical text as
\* netip.Addr.String() prints it; ip4 is the dotted form when net.IP.To4()
\* succeeds (a 4-byte address or an IPv4-mapped 16-byte one), "" otherwise.
V4Addr     == [rrtype |-> "A",    ip4 |-> "192.0.2.1", text |-> "192.0.2.1"]
V6Addr     == [rrtype |-> "AAAA", ip4 |-> "",          text |-> "2001:db8::1"]
MappedAddr == [rrtype |-> "AAAA", ip4 |-> "192.0.2.9", text |-> "::ffff:192.0.2.9"]

RlAddrs == {V4Addr, V6Addr, MappedAddr}

\* net.IP.String()
IPString(a) == IF a.ip4 # "" THEN a.ip4 ELSE a.text

\* netip.Addr.String()
AddrString(a) == a.text

\* A PTR owner name is the reverse name of an address or some other name.
ArpaName(a) == [arpa |-> TRUE, addr |-> a]
PlainName(n) == [arpa |-> FALSE, name |-> n]

\* The empty string as a name.
NoName == PlainName("")

\* dnsutils.ParsePTRQName: [ok, addr]
ParsePTRQName(n) ==
    IF n.arpa THEN [ok |-> TRUE, addr |-> n.addr] ELSE [ok |-> FALSE]

RlKeys == {IPString(a) : a \in RlAddrs} \cup {AddrString(a) : a \in RlAddrs}

\* SET key value [EX ttl]: a zero expiration stores the key without expiry.
RlSet(st, key, value, ttl) ==
    [st EXCEPT ![key] = [present |-> TRUE, v |-> value, volatile |-> ttl > 0,
                        exp |-> rlNow + ttl]]

\* GetPtr: [value, ok]
GetPtr(st, q) ==
    LET parsed == ParsePTRQName(q.question[1].name)
    IN  IF ~parsed.ok THEN [value |-> NoName, ok |-> FALSE]
        ELSE LET ptrKey == AddrString(parsed.addr)
             IN  IF st[ptrKey].present THEN [value |-> st[ptrKey].v, ok |-> TRUE]
                 ELSE [value |-> NoName, ok |-> FALSE]

RlPtrTtl == 5

\* handlePtr: the synthesized reply, or NoMsg
handlePtr(st, q) ==
    LET got == GetPtr(st, q)
    IN  IF got.ok /\ got.value # NoName
          THEN Msg("ptr", q.id, NOERROR, FALSE, <<RR("PTR", got.value, RlPtrTtl)>>, <<>>)
          ELSE NoMsg

\* StorePtr: one SET per A or AAAA answer, in order.
RECURSIVE StoreAnswers(_, _, _, _)
StoreAnswers(st, rrs, name, minTTL) ==
    IF rrs = <<>> THEN st
    ELSE LET rr == Head(rrs)
             st1 == IF rr.rrtype \in {"A", "AAAA"}
                      THEN RlSet(st, IPString(rr.data), name, minTTL)
                      ELSE st
         IN  StoreAnswers(st1, Tail(rrs), name, minTTL)

StorePtr(st, q, r) == StoreAnswers(st, r.answer, q.question[1].name, GetMinimalTTL(r))

\* Variant: read_only is not consulted.
RlWrites_Always(a, q, c) == q.question[1].qtype \in {"A", "AAAA"} /\ c.R # NoMsg

\* Exec calls StorePtr after the chain.
RlWrites(a, q, c) ==
    ~a.readOnly /\ q.question[1].qtype \in {"A", "AAAA"} /\ c.R # NoMsg

RlName == "host.example."

RlQueries ==
    {Query(9, <<Question(PlainName(RlName), t)>>) : t \in {"A", "AAAA", "TXT", "PTR"}}
    \cup {Query(9, <<Question(ArpaName(a), "PTR")>>) : a \in RlAddrs}

\* What the chain after the plugin answers.
RlAnswers(q) ==
    { Msg("up", q.id, NOERROR, FALSE, <<RR("A", V4Addr, 2)>>, <<>>),
      Msg("up", q.id, NOERROR, FALSE, <<RR("AAAA", V6Addr, 1)>>, <<>>),
      Msg("up", q.id, NOERROR, FALSE,
          <<RR("CNAME", "alias.example.", 2), RR("AAAA", MappedAddr, 2)>>, <<>>),
      Msg("up", q.id, NOERROR, FALSE, <<RR("A", V4Addr, 0)>>, <<>>),
      Msg("up", q.id, NXDOMAIN, FALSE, <<>>, <<RR("SOA", "ns.example.", 1)>>) }

RlOutcomes(q) ==
    {[kind |-> "leave"], [kind |-> "error"]} \cup
    {[kind |-> "answer", msg |-> m] : m \in RlAnswers(q)}

RlIdle == [q |-> Query(0, <<>>), at |-> 0, chained |-> FALSE, ctx |-> NoCtx,
           err |-> FALSE]

RlOff ==
    /\ rlArgs = [readOnly |-> FALSE]
    /\ rlStore = [k \in RlKeys |-> NoEntry]
    /\ rlNow = 0
    /\ rlLast = RlIdle
    /\ rlSteps = 0

RlInit ==
    /\ rlArgs \in {[readOnly |-> b] : b \in BOOLEAN}
    /\ rlStore = [k \in RlKeys |-> NoEntry]
    /\ rlNow = 0
    /\ rlLast = RlIdle
    /\ rlSteps = 0

\* ReverseLookupRedisCache.Exec on a new context.
RlExec ==
    /\ rlSteps < MaxRlSteps
    /\ rlSteps' = rlSteps + 1
    /\ \E q \in RlQueries : \E o \in RlOutcomes(q) :
          LET r == IF q.question[1].qtype = "PTR" THEN handlePtr(rlStore, q) ELSE NoMsg
          IN  IF r # NoMsg
                THEN /\ rlLast' = [q |-> q, at |-> rlNow, chained |-> FALSE,
                                   ctx |-> [NoCtx EXCEPT !.R = r], err |-> FALSE]
                     /\ UNCHANGED rlStore
                ELSE LET res == ExecNext(Arg(0, FALSE, "none"), NoCtx, q, o)
                     IN  /\ rlLast' = [q |-> q, at |-> rlNow, chained |-> TRUE,
                                       ctx |-> res.ctx, err |-> res.err]
                         /\ rlStore' = IF RlWrites(rlArgs, q, res.ctx)
                                         THEN StorePtr(rlStore, q, res.ctx.R)
                                         ELSE rlStore
    /\ UNCHANGED <<rlArgs, rlNow, notRl>>

RlTick ==
    /\ rlNow < MaxRlTime
    /\ rlNow' = rlNow + 1
    /\ rlStore' = RedisExpire(rlStore, rlNow + 1)
    /\ UNCHANGED <<rlArgs, rlLast, rlSteps, notRl>>

-----------------------------------------------------------------------------
(* clean_up_ecs and dual_stack_ecs_handler                                 *)

Mask4 == 24
Mask6 == 48

EcsPreset4 == "198.51.100.0"
EcsPreset6 == "2001:db8:1::"

\* An EDNS0-SUBNET option. Address is the preset masked to the prefix.
newSubnet(ip, mask, v6) ==
    [code |-> "SUBNET", Family |-> IF v6 THEN 2 ELSE 1, SourceNetmask |-> mask,
     SourceScope |-> 0, Address |-> <<ip, mask>>]

\* The options a client may send.
ClientOptions ==
    { [code |-> "COOKIE"], [code |-> "PADDING"],
      [code |-> "SUBNET", Family |-> 1, SourceNetmask |-> 32, SourceScope |-> 0,
       Address |-> <<"192.0.2.77", 32>>],
      [code |-> "SUBNET", Family |-> 2, SourceNetmask |-> 56, SourceScope |-> 0,
       Address |-> <<"2001:db8:77::", 56>>] }

RECURSIVE OptionLists(_)
OptionLists(n) ==
    IF n = 0 THEN {<<>>}
    ELSE LET shorter == OptionLists(n - 1)
         IN  shorter \cup {Append(l, o) : l \in {x \in shorter : Len(x) = n - 1},
                                          o \in ClientOptions}

IsSubnet(o) == o.code = "SUBNET"

HasSubnet(opts) == \E i \in DOMAIN opts : IsSubnet(opts[i])

\* Variant: no look at the options the query already carries.
addECS_Blind(q, opts) ==
    IF q.qclass # "IN" THEN opts
    ELSE IF q.qtype = "A" THEN Append(opts, newSubnet(EcsPreset4, Mask4, FALSE))
    ELSE IF q.qtype = "AAAA" THEN Append(opts, newSubnet(EcsPreset6, Mask6, TRUE))
    ELSE opts \o <<newSubnet(EcsPreset4, Mask4, FALSE), newSubnet(EcsPreset6, Mask6, TRUE)>>

\* ECSHandler.addECS: the option list it leaves.
addECS(q, opts) ==
    IF HasSubnet(opts) THEN opts
    ELSE IF q.qclass # "IN" THEN opts
    ELSE IF q.qtype = "A" THEN Append(opts, newSubnet(EcsPreset4, Mask4, FALSE))
    ELSE IF q.qtype = "AAAA" THEN Append(opts, newSubnet(EcsPreset6, Mask6, TRUE))
    ELSE opts \o <<newSubnet(EcsPreset4, Mask4, FALSE), newSubnet(EcsPreset6, Mask6, TRUE)>>

\* The loop of cleanUpECS.Exec. range walks the n elements of the slice as
\* it was when the loop began, reading each from the backing array arr at
\* the time of its turn; Option is arr[1..len]. Removing element i shifts
\* the tail of Option down inside arr. Option[i+1:] past the length of
\* Option is a runtime panic (slice bounds out of range).
RECURSIVE cleanUpLoop(_, _, _)
cleanUpLoop(arr, len, i) ==
    IF i > Len(arr) THEN [Option |-> SubSeq(arr, 1, len), panicked |-> FALSE]
    ELSE IF ~IsSubnet(arr[i]) THEN cleanUpLoop(arr, len, i + 1)
    ELSE IF i > len THEN [Option |-> SubSeq(arr, 1, len), panicked |-> TRUE]
    ELSE cleanUpLoop([j \in 1..Len(arr) |->
                         IF j >= i /\ j < len THEN arr[j + 1] ELSE arr[j]],
                     len - 1, i + 1)

cleanUpECS(opts) == cleanUpLoop(opts, Len(opts), 1)

EcsQuestions ==
    {[qtype |-> t, qclass |-> c] : t \in {"A", "AAAA", "TXT"}, c \in {"IN", "CH"}}

EcsIdle == [op |-> "none", before |-> <<>>, panicked |-> FALSE]

EcsOff ==
    /\ ecsQ = [qtype |-> "A", qclass |-> "IN"]
    /\ ecsOpt = <<>>
    /\ ecsLast = EcsIdle
    /\ ecsSteps = 0

EcsInit ==
    /\ ecsQ \in EcsQuestions
    /\ ecsOpt \in OptionLists(MaxOpts)
    /\ ecsLast = EcsIdle
    /\ ecsSteps = 0

\* cleanUpECS.Exec up to next.ExecNext; a panic ends the handling of the query.
EcsCleanUp ==
    /\ ecsSteps < MaxEcsSteps /\ ~ecsLast.panicked
    /\ LET res == cleanUpECS(ecsOpt)
       IN  /\ ecsOpt' = res.Option
           /\ ecsLast' = [op |-> "clean_up_ecs", before |-> ecsOpt,
                          panicked |-> res.panicked]
    /\ ecsSteps' = ecsSteps + 1
    /\ UNCHANGED <<ecsQ, notEcs>>

\* ECSHandler.Exec up to next.ExecNext.
EcsAdd ==
    /\ ecsSteps < MaxEcsSteps /\ ~ecsLast.panicked
    /\ ecsOpt' = addECS(ecsQ, ecsOpt)
    /\ ecsLast' = [op |-> "add_ecs", before |-> ecsOpt, panicked |-> FALSE]
    /\ ecsSteps' = ecsSteps + 1
    /\ UNCHANGED <<ecsQ, notEcs>>

-----------------------------------------------------------------------------
(* dnsmasq_dhcp_leases. A lease is [Hostname, IPAddr]; Expires only sets   *)
(* the TTL of the records and is left out.                                 *)

\* netip.Addr: fam is 4, 6 or 0 for the zero Addr (not IsValid).
LsAddr(fam, text) == [fam |-> fam, text |-> text]

LsNoAddr == LsAddr(0, "")

Lease(h, a) == [Hostname |-> h, IPAddr |-> a]

\* The filler of the unused capacity of a backing array.
NoLease == Lease("", LsNoAddr)

LsAddrs ==
    { LsAddr(4, "192.168.1.5"), LsAddr(4, "192.168.1.9"),
      LsAddr(6, "fd00::5"), LsAddr(6, "fd00::7") }

\* The lines a leases file may hold; dnsmasq writes * for an unknown hostname.
LeaseLines ==
    { Lease("printer", LsAddr(4, "192.168.1.5")), Lease("printer", LsAddr(6, "fd00::5")),
      Lease("nas", LsAddr(6, "fd00::7")),         Lease("*", LsAddr(4, "192.168.1.9")),
      Lease("cam", LsNoAddr) }

RECURSIVE LeaseFiles(_)
LeaseFiles(n) ==
    IF n = 0 THEN {<<>>}
    ELSE LET shorter == LeaseFiles(n - 1)
         IN  shorter \cup {Append(f, l) : f \in {x \in shorter : Len(x) = n - 1},
                                          l \in LeaseLines}

\* A slice is a backing array arr (its length is the capacity) and a length.
EmptySlice == [arr |-> <<>>, len |-> 0]

\* The array append allocates when the capacity is used up.
GrownArray(content) ==
    LET cap == IF Len(content) = 1 THEN 1 ELSE 2 * (Len(content) - 1)
    IN  [j \in 1..cap |-> IF j <= Len(content) THEN content[j] ELSE NoLease]

SliceSeq(sl) == SubSeq(sl.arr, 1, sl.len)

leasesGroup == [ipv4Leases |-> <<>>, ipv6Leases |-> <<>>]

\* l.ipv6Leases either has an array of its own or shares that of l.ipv4Leases.
EmptyLists == [v4 |-> EmptySlice, v6 |-> [arr |-> <<>>, len |-> 0, shared |-> FALSE]]

V4List(ll) == SliceSeq(ll.v4)
V6List(ll) == SubSeq(IF ll.v6.shared THEN ll.v4.arr ELSE ll.v6.arr, 1, ll.v6.len)

\* l.ipv4Leases = append(l.ipv4Leases, lease)
AppendV4(ll, lease) ==
    IF ll.v4.len < Len(ll.v4.arr)
    THEN [ll EXCEPT !.v4 = [arr |-> [ll.v4.arr EXCEPT ![ll.v4.len + 1] = lease],
                            len |-> ll.v4.len + 1]]
    ELSE [v4 |-> [arr |-> GrownArray(Append(SliceSeq(ll.v4), lease)),
                  len |-> ll.v4.len + 1],
          v6 |-> IF ll.v6.shared
                   THEN [arr |-> ll.v4.arr, len |-> ll.v6.len, shared |-> FALSE]
                   ELSE ll.v6]

\* l.ipv6Leases = append(l.ipv4Leases, lease)
AppendV6(ll, lease) ==
    IF ll.v4.len < Len(ll.v4.arr)
    THEN [v4 |-> [ll.v4 EXCEPT !.arr = [ll.v4.arr EXCEPT ![ll.v4.len + 1] = lease]],
          v6 |-> [arr |-> <<>>, len |-> ll.v4.len + 1, shared |-> TRUE]]
    ELSE [ll EXCEPT !.v6 = [arr |-> GrownArray(Append(SliceSeq(ll.v4), lease)),
                            len |-> ll.v4.len + 1, shared |-> FALSE]]

\* The key of ipMap whose group takes the lease: ipMap[hostname] when there
\* is one, else a new group stored under hostname + ".".
GroupKey(ipMap, hostname) ==
    IF hostname \in DOMAIN ipMap THEN hostname ELSE hostname \o "."

\* One turn of the loop of buildMatchers on the local ipMap.
BuildMapTurn(ipMap, lease) ==
    IF lease.IPAddr.fam = 0 \/ lease.Hostname = "*" THEN ipMap
    ELSE LET key == GroupKey(ipMap, lease.Hostname)
             ips == IF key \in DOMAIN ipMap /\ lease.Hostname \in DOMAIN ipMap
                      THEN ipMap[key] ELSE leasesGroup
             grp == IF lease.IPAddr.fam = 4
                      THEN [ips EXCEPT !.ipv4Leases = Append(@, lease)]
                      ELSE [ips EXCEPT !.ipv6Leases = Append(@, lease)]
         IN  [k \in DOMAIN ipMap \cup {key} |-> IF k = key THEN grp ELSE ipMap[k]]

\* One turn of the loop of buildMatchers on l.ipv4Leases and l.ipv6Leases.
BuildListsTurn(ll, lease) ==
    IF lease.IPAddr.fam = 0 \/ lease.Hostname = "*" THEN ll
    ELSE IF lease.IPAddr.fam = 4 THEN AppendV4(ll, lease)
    ELSE AppendV6(ll, lease)

EmptyMap == [k \in {} |-> leasesGroup]

RECURSIVE BuildMap(_, _)
BuildMap(leases, n) ==
    IF n = 0 THEN EmptyMap ELSE BuildMapTurn(BuildMap(leases, n - 1), leases[n])

RECURSIVE BuildLists(_, _)
BuildLists(leases, n) ==
    IF n = 0 THEN EmptyLists ELSE BuildListsTurn(BuildLists(leases, n - 1), leases[n])

\* What a query reads of the Leases: the matcher and the two lists.
LsView(matcher, ll) == [matcher |-> matcher, v4 |-> V4List(ll), v6 |-> V6List(ll)]

\* The view a whole run of buildMatchers leaves.
buildMatchers(leases) ==
    LsView(BuildMap(leases, Len(leases)), BuildLists(leases, Len(leases)))

\* The questions of the cache entries a build stores.
WarmQuestions(ipMap) == {<<key, t>> : key \in DOMAIN ipMap, t \in {"A", "AAAA"}}

LsNil == [nil |-> TRUE]

LsReply(answer, soa) == [nil |-> FALSE, Answer |-> answer, fakeSOA |-> soa]

LsQuestion(name, t) == [Name |-> name, Qtype |-> t, Qclass |-> "IN"]

\* The first lease of the list with the address: its index, 0 if none.
FirstWithAddr(list, addr) ==
    LET hits == {i \in DOMAIN list : list[i].IPAddr = addr}
    IN  IF hits = {} THEN 0 ELSE CHOOSE i \in hits : \A j \in hits : i <= j

\* Leases.responsePtr
responsePtr(view, q) ==
    IF q.Qclass # "IN" \/ q.Qtype # "PTR" THEN LsNil
    ELSE LET parsed == ParsePTRQName(q.Name)
             addr == IF parsed.ok THEN parsed.addr ELSE LsNoAddr
             list == IF addr.fam = 4 THEN view.v4
                     ELSE IF addr.fam = 6 THEN view.v6 ELSE <<>>
             hit  == FirstWithAddr(list, addr)
             name == IF hit = 0 THEN "" ELSE list[hit].Hostname
         IN  IF addr.fam = 0 \/ name = "" THEN LsNil
             ELSE LsReply(<<[Rrtype |-> "PTR", Ttl |-> 5, Ptr |-> name \o "."]>>, FALSE)

\* Leases.responseQuery with Leases.lookup
responseQuery(view, q) ==
    IF q.Qclass # "IN" \/ q.Qtype \notin {"A", "AAAA"} THEN LsNil
    ELSE LET fqdn == IF q.Name.arpa THEN "" ELSE q.Name.name
             ips == IF fqdn \in DOMAIN view.matcher
                      THEN view.matcher[fqdn] ELSE leasesGroup
             list == IF q.Qtype = "A" THEN ips.ipv4Leases ELSE ips.ipv6Leases
         IN  IF Len(ips.ipv4Leases) + Len(ips.ipv6Leases) = 0 THEN LsNil
             ELSE LsReply([i \in DOMAIN list |->
                              [Rrtype |-> q.Qtype, Addr |-> list[i].IPAddr]],
                          list = <<>>)

\* Leases.Exec on a query context without response.
LeasesExec(view, q) ==
    LET ptr == responsePtr(view, q)
    IN  IF ~ptr.nil THEN ptr ELSE responseQuery(view, q)

LsSuffixs == {"lan"}

LsNames == {"printer.", "printer.lan."}

LsQueries ==
    {LsQuestion(PlainName(n), t) : n \in LsNames, t \in {"A", "AAAA"}}
        \cup {LsQuestion(ArpaName(a), "PTR") : a \in LsAddrs}

LsIdle == [op |-> "none"]

LsBuildIdle == [pc |-> "idle", i |-> 0, ipMap |-> EmptyMap]

LsOff ==
    /\ lsArgs = [Suffixs |-> {}]
    /\ lsLeases = <<>> /\ lsPrev = <<>>
    /\ lsLists = EmptyLists
    /\ lsMatcher = EmptyMap
    /\ lsBuild = LsBuildIdle
    /\ lsWarm = {}
    /\ lsLast = LsIdle
    /\ lsRebuilds = 0

\* NewLeases: the file is read and buildMatchers has run once.
LsInit ==
    /\ lsArgs \in {[Suffixs |-> ss] : ss \in SUBSET LsSuffixs}
    /\ lsLeases \in LeaseFiles(MaxLeases)
    /\ lsPrev = lsLeases
    /\ lsLists = BuildLists(lsLeases, Len(lsLeases))
    /\ lsMatcher = BuildMap(lsLeases, Len(lsLeases))
    /\ lsBuild = LsBuildIdle
    /\ lsWarm = WarmQuestions(lsMatcher)
    /\ lsLast = LsIdle
    /\ lsRebuilds = 0

\* Leases.start takes a batch from the channel: l.leases is replaced,
\* buildMatchers begins and replaces l.ipv4Leases by an empty slice.
LsBatch ==
    /\ lsBuild.pc = "idle" /\ lsRebuilds < MaxRebuilds
    /\ \E batch \in LeaseFiles(MaxLeases) : lsLeases' = batch
    /\ lsPrev' = lsLeases
    /\ lsLists' = [v4 |-> EmptySlice,
                   v6 |-> [arr |-> V6List(lsLists), len |-> lsLists.v6.len,
                           shared |-> FALSE]]
    /\ lsBuild' = [pc |-> "reset6", i |-> 0, ipMap |-> EmptyMap]
    /\ lsRebuilds' = lsRebuilds + 1
    /\ UNCHANGED <<lsArgs, lsMatcher, lsWarm, lsLast, notLs>>

\* buildMatchers: l.ipv6Leases is replaced by an empty slice.
LsReset6 ==
    /\ lsBuild.pc = "reset6"
    /\ lsLists' = [lsLists EXCEPT !.v6 = EmptyLists.v6]
    /\ lsBuild' = [lsBuild EXCEPT !.pc = "loop", !.i = 1]
    /\ UNCHANGED <<lsArgs, lsLeases, lsPrev, lsMatcher, lsWarm, lsLast, lsRebuilds, notLs>>

\* buildMatchers: one turn of the loop over the leases.
LsTurn ==
    /\ lsBuild.pc = "loop" /\ lsBuild.i <= Len(lsLeases)
    /\ lsLists' = BuildListsTurn(lsLists, lsLeases[lsBuild.i])
    /\ lsBuild' = [lsBuild EXCEPT !.i = @ + 1,
                                  !.ipMap = BuildMapTurn(@, lsLeases[lsBuild.i])]
    /\ UNCHANGED <<lsArgs, lsLeases, lsPrev, lsMatcher, lsWarm, lsLast, lsRebuilds, notLs>>

\* buildMatchers: the matcher filled from ipMap is stored in l.matcher.
LsPublish ==
    /\ lsBuild.pc = "loop" /\ lsBuild.i > Len(lsLeases)
    /\ lsMatcher' = lsBuild.ipMap
    /\ lsBuild' = [lsBuild EXCEPT !.pc = "warm"]
    /\ UNCHANGED <<lsArgs, lsLeases, lsPrev, lsLists, lsWarm, lsLast, lsRebuilds, notLs>>

\* buildMatchers: the responses for every key of ipMap go to the cache.
LsWarmUp ==
    /\ lsBuild.pc = "warm"
    /\ lsWarm' = WarmQuestions(lsBuild.ipMap)
    /\ lsBuild' = LsBuildIdle
    /\ UNCHANGED <<lsArgs, lsLeases, lsPrev, lsLists, lsMatcher, lsLast, lsRebuilds, notLs>>

\* Leases.Exec on the goroutine of a query, at any point of a rebuild.
LsQuery ==
    /\ \E q \in LsQueries :
          lsLast' = [op |-> "query", q |-> q,
                     r |-> LeasesExec(LsView(lsMatcher, lsLists), q),
                     old |-> lsPrev, new |-> lsLeases,
                     building |-> lsBuild.pc # "idle"]
    /\ UNCHANGED <<lsArgs, lsLeases, lsPrev, lsLists, lsMatcher, lsBuild, lsWarm, lsRebuilds, notLs>>

-----------------------------------------------------------------------------
(* netlist.List: a flat array of prefixes [base, bits] over addresses of   *)
(* AddrWidth bits.                                                         *)

NlAddrs == 0..(2^AddrWidth - 1)

\* The addresses of one prefix of length bits.
BlockSize(bits) == 2^(AddrWidth - bits)

\* netip.Prefix.Masked: the host bits of the address are cleared.
Masked(addr, bits) == [base |-> (addr \div BlockSize(bits)) * BlockSize(bits), bits |-> bits]

\* netip.Prefix.Contains
Contains(p, addr) == addr \div BlockSize(p.bits) = p.base \div BlockSize(p.bits)

\* The index permutations that put list in ascending order of base address;
\* the order of entries of equal base is left to the sort.
SortOrders(list) ==
    {f \in [DOMAIN list -> DOMAIN list] :
        /\ \A i, j \in DOMAIN list : i # j => f[i] # f[j]
        /\ \A i, j \in DOMAIN list : i < j => list[f[i]].base <= list[f[j]].base}

\* Variant: an entry is dropped only when the entry before it is the same.
MergeTurn_DropEqual(out, n) ==
    IF out # <<>> /\ out[Len(out)] = n THEN out ELSE Append(out, n)

\* Variant: an entry whose base the last kept one contains is dropped.
MergeTurn_KeepFirst(out, n) ==
    IF out # <<>> /\ Contains(out[Len(out)], n.base) THEN out ELSE Append(out, n)

\* One turn of the merge over the sorted entries: of two entries of one base
\* the broader is kept, an entry inside the last kept one is dropped.
MergeTurn(out, n) ==
    IF out = <<>> THEN <<n>>
    ELSE LET lv == out[Len(out)]
         IN  IF n.base = lv.base
               THEN IF n.bits < lv.bits THEN [out EXCEPT ![Len(out)] = n] ELSE out
             ELSE IF ~Contains(lv, n.base) THEN Append(out, n)
             ELSE out

RECURSIVE Merge(_, _)
Merge(list, k) == IF k = 0 THEN <<>> ELSE MergeTurn(Merge(list, k - 1), list[k])

\* sort.Search on list[h].base > addr: the number of leading entries with
\* base <= addr when list is sorted. i and j are the 0-based bounds.
RECURSIVE Search(_, _, _, _)
Search(list, addr, i, j) ==
    IF i >= j THEN i
    ELSE LET h == (i + j) \div 2
         IN  IF list[h + 1].base > addr THEN Search(list, addr, i, h)
             ELSE Search(list, addr, h + 1, j)

\* List.Match on a sorted list.
Match(list, addr) ==
    LET i == Search(list, addr, 0, Len(list))
    IN  i > 0 /\ Contains(list[i], addr)

NlIdle == [op |-> "none", addr |-> 0, got |-> FALSE]

NlOff == nlE = <<>> /\ nlSorted = FALSE /\ nlInserted = {} /\ nlLast = NlIdle

\* NewList
NlInit == nlE = <<>> /\ nlSorted = FALSE /\ nlInserted = {} /\ nlLast = NlIdle

\* List.Append of one prefix, as LoadFromReader does for each line.
NlAppend ==
    /\ Len(nlE) < MaxPrefixes /\ Cardinality(nlInserted) < MaxPrefixes
    /\ \E addr \in NlAddrs, bits \in 0..AddrWidth :
          /\ nlE' = Append(nlE, Masked(addr, bits))
          /\ nlInserted' = nlInserted \cup {Masked(addr, bits)}
    /\ nlSorted' = FALSE
    /\ nlLast' = NlIdle
    /\ UNCHANGED notNl

\* List.Sort
NlSort ==
    /\ ~nlSorted
    /\ \E f \in SortOrders(nlE) :
          nlE' = Merge([i \in DOMAIN nlE |-> nlE[f[i]]], Len(nlE))
    /\ nlSorted' = TRUE
    /\ UNCHANGED <<nlInserted, nlLast, notNl>>

\* List.Match
NlMatch ==
    /\ nlSorted
    /\ \E addr \in NlAddrs :
          nlLast' = [op |-> "match", addr |-> addr, got |-> Match(nlE, addr)]
    /\ UNCHANGED <<nlE, nlSorted, nlInserted, notNl>>

-----------------------------------------------------------------------------
(* RedisCache.Exec. One action per stretch of the method between two       *)
(* accesses to shared state (the backend, the single-flight group); the    *)
(* downstream chain touches only the context of its caller and runs inside *)
(* the action that calls it.                                               *)

NoLoc == [key |-> EmptyKey, hit |-> "none", cached |-> NoMsg, item |-> NoItem,
          readAt |-> 0, chainErr |-> FALSE, saved |-> "no", ret |-> FALSE,
          read |-> FALSE]

EnIdle == [op |-> "none"]

EnOff == enLast = EnIdle

NoTick == -1

McIdle == [op |-> "none"]

NoGet == [key |-> "none"]

McOff == mcM = <<>> /\ mcClosed = FALSE /\ mcNow = 0 /\ mcTick = NoTick /\ mcGc = "none"
         /\ mcLast = McIdle /\ mcGet = NoGet

GpIdle == [loader |-> "none"]

GpOff == gpFile = <<>> /\ gpCode = "" /\ gpLast = GpIdle

FdIdle == [op |-> "none"]

FdOff == fdRecs = <<>> /\ fdData = <<>> /\ fdCode = <<>> /\ fdLast = FdIdle

GfIdle == [op |-> "none"]

GfOff == gfBuild = "" /\ gfFileCache = <<>> /\ gfIPCache = <<>> /\ gfReads = 0
         /\ gfLoaded = {} /\ gfLast = GfIdle

KyIdle == [op |-> "none"]

KyOff == kyA = <<>> /\ kyB = <<>> /\ kyLast = KyIdle

MsIdle == [op |-> "none"]

NoMsElem == [present |-> FALSE]

MsOff == msLazy = 0 /\ msM = NoMsElem /\ msLast = MsIdle

RbIdle == [op |-> "none"]

RbOff == rbClients = <<>> /\ rbBackends = <<>> /\ rbInst = <<>> /\ rbData = <<>> /\ rbLast = RbIdle

GiIdle == [op |-> "none"]

GiNone == [made |-> FALSE, err |-> FALSE]

GiOff == giFiles = <<>> /\ giIps = <<>> /\ giMade = GiNone /\ giLast = GiIdle

JcIdle == [op |-> "none"]

JcOff == jcLazy = 0 /\ jcNow = 0 /\ jcEntry = NoEntry /\ jcLast = JcIdle

FreeTask == [pc |-> "free", key |-> EmptyKey, q |-> Query(0, <<>>), ctx |-> NoCtx,
             err |-> FALSE, saved |-> "no"]

\* The cachedResp that Exec compares r with after the chain: the variable
\* declared before the if. The lookup assigns a new variable of the same
\* name in the else block (:=), so this one is never set.
cachedRespOuter(l) == NoMsg

\* Variant: the response left in the context is saved.
RespToSave_Current(c) == [resp |-> c.R, tag |-> c.tag]

\* What Exec saves: [resp, tag].
RespToSave(c) ==
    IF c.orig # NoMsg THEN [resp |-> c.orig, tag |-> c.tag]
    ELSE [resp |-> c.R, tag |-> ""]

\* The keyspace outlives the process: at start it is empty or holds what a
\* query of an earlier run saved, at time 0.
EarlierStores(a) ==
    LET empty == [k \in Keys |-> NoEntry]
        q == Query(1, <<Question(QName, "A")>>)
    IN  {empty} \cup
        { LET w == RespToSave(ExecNext(a, NoCtx, q, [kind |-> "answer", msg |-> m]).ctx)
          IN  saveRespToCache(empty, getMsgKey(q), w.resp, a.lazy, w.tag) :
          m \in UpstreamAnswers(q) }

CacheInit(argSet, questions) ==
    /\ now = 0
    /\ args \in argSet
    /\ inbound = questions
    /\ store \in EarlierStores(args)
    /\ sfm = {}
    /\ tasks = [s \in TaskSlots |-> FreeTask]
    /\ pc = [p \in Procs |-> "idle"]
    /\ qry = [p \in Procs |-> Query(0, <<>>)]
    /\ ctx = [p \in Procs |-> NoCtx]
    /\ loc = [p \in Procs |-> NoLoc]
    /\ started = 0
    /\ redisUp = TRUE
    /\ JcOff /\ GiOff /\ RbOff /\ MsOff /\ KyOff /\ GfOff /\ FdOff /\ GpOff /\ McOff /\ EnOff /\ BhOff /\ RlOff /\ EcsOff /\ LsOff /\ NlOff

\* Well-formed clients: one question per query.
Init == CacheInit(Args, {<<Question(QName, "A")>>})

\* Variant: the stored Id is kept.
WithQueryId_Stored(cachedResp, q) == cachedResp

\* The response put in the context on a hit.
WithQueryId(cachedResp, q) == [cachedResp EXCEPT !.id = q.id]

\* The context and locals of call p after next.ExecNext with outcome o.
AfterChain(p, c, l, o) ==
    LET res == ExecNext(args, c, qry'[p], o)
    IN  /\ ctx' = [ctx EXCEPT ![p] = res.ctx]
        /\ loc' = [loc EXCEPT ![p] = [l EXCEPT !.chainErr = res.err]]

\* Variant: the lookup is made whatever store_only says.
SkipRead_Never(a) == FALSE

\* if c.args.StoreOnly: the lookup is skipped.
SkipRead(a) == a.storeOnly

\* The listener hands a new query to the sequence, whose first step is the
\* cache: Exec up to the return of next.ExecNext or, on a lazy hit, up to
\* the call of doLazyUpdate.
Exec(p) ==
    /\ pc[p] \in {"idle", "done"}
    /\ started < MaxQueries
    /\ started' = started + 1
    /\ \E qs \in inbound, o \in ForwardOutcomes(Query(p, <<>>)) :
        /\ qry' = [qry EXCEPT ![p] = Query(p, qs)]
        /\ IF Len(qs) = 0
             THEN \* q.Question[0]: index out of range
                  /\ pc' = [pc EXCEPT ![p] = "panic"]
                  /\ ctx' = [ctx EXCEPT ![p] = NoCtx]
                  /\ loc' = [loc EXCEPT ![p] = NoLoc]
           ELSE LET msgKey == getMsgKey(Query(p, qs))
                    got == getRespFromCache(Get(store), msgKey,
                               args.lazy > 0 \/ args.lazy = KeepTTL, ExpiredMsgTtl)
                    l0  == [NoLoc EXCEPT !.key = msgKey]
                    lr  == [l0 EXCEPT !.read = TRUE]
                    l1  == [lr EXCEPT !.hit = IF got.lazyHit THEN "lazy" ELSE "fresh",
                                      !.cached = got.resp, !.item = got.item,
                                      !.readAt = now]
                IN  IF msgKey = EmptyKey
                      THEN \* skip cache: return next.ExecNext(ctx, qCtx)
                           /\ AfterChain(p, NoCtx, [l0 EXCEPT !.ret =
                                  ExecNext(args, NoCtx, Query(p, qs), o).err], o)
                           /\ pc' = [pc EXCEPT ![p] = "done"]
                    ELSE IF SkipRead(args)
                      THEN /\ AfterChain(p, NoCtx, l0, o)
                           /\ pc' = [pc EXCEPT ![p] = "post"]
                    ELSE IF got.resp = NoMsg
                      THEN /\ AfterChain(p, NoCtx, lr, o)
                           /\ pc' = [pc EXCEPT ![p] = "post"]
                    ELSE IF got.lazyHit
                      THEN /\ ctx' = [ctx EXCEPT ![p] = NoCtx]
                           /\ loc' = [loc EXCEPT ![p] = l1]
                           /\ pc' = [pc EXCEPT ![p] = "lazy"]
                    ELSE /\ AfterChain(p, [NoCtx EXCEPT !.R =
                                              WithQueryId(got.resp, Query(p, qs))], l1, o)
                         /\ pc' = [pc EXCEPT ![p] = "post"]
    /\ UNCHANGED <<redisUp, now, args, inbound, store, sfm, tasks, notCache>>

FreeSlots == {s \in TaskSlots : tasks[s].pc = "free"}

\* Variant: every call starts fn.
DoChan_NoDedupe(msgKey, q, c) ==
    /\ FreeSlots # {}
    /\ LET s == CHOOSE x \in FreeSlots : \A y \in FreeSlots : x <= y
       IN  tasks' = [tasks EXCEPT ![s] =
                        [FreeTask EXCEPT !.pc = "run", !.key = msgKey, !.q = q,
                                         !.ctx = c]]
    /\ sfm' = sfm \cup {msgKey}

\* lazyUpdateSF.DoChan(msgKey, fn): fn runs in a new goroutine unless a call
\* for msgKey is registered.
DoChan(msgKey, q, c) ==
    IF msgKey \in sfm
      THEN UNCHANGED <<sfm, tasks>>
      ELSE /\ FreeSlots # {}
           /\ LET s == CHOOSE x \in FreeSlots : \A y \in FreeSlots : x <= y
              IN  tasks' = [tasks EXCEPT ![s] =
                               [FreeTask EXCEPT !.pc = "run", !.key = msgKey, !.q = q,
                                                !.ctx = c]]
           /\ sfm' = sfm \cup {msgKey}

\* On a lazy hit: doLazyUpdate with a copy of the context, then the stale
\* response goes into the context and the chain runs.
ExecLazy(p) ==
    /\ pc[p] = "lazy"
    /\ DoChan(loc[p].key, qry[p], ctx[p])
    /\ qry' = qry
    /\ \E o \in ForwardOutcomes(qry[p]) :
          AfterChain(p, [ctx[p] EXCEPT !.R = WithQueryId(loc[p].cached, qry[p])],
                     loc[p], o)
    /\ pc' = [pc EXCEPT ![p] = "post"]
    /\ UNCHANGED <<redisUp, now, args, inbound, store, started, notCache>>

\* After the chain: store the response unless it is the cached one; Exec
\* returns the chain's error. The locals die with the call; hit and saved
\* are kept as its record.
ExecPost(p) ==
    /\ pc[p] = "post"
    /\ LET r == ctx[p].R
           w == RespToSave(ctx[p])
           l == [NoLoc EXCEPT !.key = loc[p].key, !.hit = loc[p].hit,
                              !.ret = loc[p].chainErr, !.read = loc[p].read]
       IN  IF r # NoMsg /\ cachedRespOuter(loc[p]) # r
             THEN /\ store' = Store(store, saveRespToCache(store, loc[p].key, w.resp,
                                                             args.lazy, w.tag))
                  /\ loc' = [loc EXCEPT ![p] =
                               [l EXCEPT !.saved = IF saveSkipped(w.resp, args.lazy)
                                                     THEN "skipped" ELSE "stored"]]
             ELSE /\ loc' = [loc EXCEPT ![p] = l]
                  /\ UNCHANGED store
    /\ pc' = [pc EXCEPT ![p] = "done"]
    /\ UNCHANGED <<redisUp, now, args, inbound, sfm, tasks, qry, ctx, started, notCache>>

-----------------------------------------------------------------------------
(* The lazy-refresh goroutine (lazyUpdateFunc) *)

\* What the goroutine's saveRespToCache call returned, "no" without a call.
RefreshSaved(r) ==
    IF r = NoMsg THEN "no"
    ELSE IF saveSkipped(r, args.lazy) THEN "skipped" ELSE "stored"

\* The chain on the copied context, then the save of what it left there.
\* An error of the chain is logged and dropped.
RefreshRun(s) ==
    /\ tasks[s].pc = "run"
    /\ \E o \in ForwardOutcomes(tasks[s].q) :
          LET res == ExecNext(args, tasks[s].ctx, tasks[s].q, o)
              r   == res.ctx.R
          IN  /\ tasks' = [tasks EXCEPT ![s].ctx = res.ctx, ![s].pc = "forget",
                                         ![s].err = res.err,
                                         ![s].saved = RefreshSaved(r)]
              /\ IF r # NoMsg
                   THEN store' = Store(store, saveRespToCache(store, tasks[s].key, r,
                                                              args.lazy, res.ctx.tag))
                   ELSE UNCHANGED store
    /\ UNCHANGED <<redisUp, now, args, inbound, sfm, pc, qry, ctx, loc, started, notCache>>

\* defer c.lazyUpdateSF.Forget(msgKey), then the goroutine ends.
RefreshForget(s) ==
    /\ tasks[s].pc = "forget"
    /\ sfm' = sfm \ {tasks[s].key}
    /\ tasks' = [tasks EXCEPT ![s] = FreeTask]
    /\ UNCHANGED <<redisUp, now, args, inbound, store, pc, qry, ctx, loc, started, notCache>>

Tick ==
    /\ now < MaxTime
    /\ now' = now + 1
    /\ store' = RedisExpire(store, now + 1)
    /\ UNCHANGED <<redisUp, args, inbound, sfm, tasks, pc, qry, ctx, loc, started, notCache>>

Next ==
    \/ \E p \in Procs : Exec(p)
    \/ \E p \in Procs : ExecLazy(p)
    \/ \E p \in Procs : ExecPost(p)
    \/ \E s \in TaskSlots : RefreshRun(s)
    \/ \E s \in TaskSlots : RefreshForget(s)
    \/ Tick

Spec == Init /\ [][Next]_vars

\* The cache followed by the forwarder and resp_match_black_hole.
InitIntercept ==
    CacheInit({Arg(LazyTtlCfg, FALSE, "resp_match")}, {<<Question(QName, "A")>>})

SpecIntercept == InitIntercept /\ [][Next]_vars

\* Clients that also send queries with no question or with two.
InitAnyQuestion == CacheInit({Arg(LazyTtlCfg, FALSE, "none")}, CacheQuestions)

SpecAnyQuestion == InitAnyQuestion /\ [][Next]_vars

\* Lazy caching with store_only on or off.
InitStoreOnly ==
    CacheInit({Arg(LazyTtlCfg, TRUE, "none"), Arg(LazyTtlCfg, FALSE, "none")},
              {<<Question(QName, "A")>>})

SpecStoreOnly == InitStoreOnly /\ [][Next]_vars

\* The redis server becomes unreachable, or reachable again.
Outage ==
    /\ redisUp' = ~redisUp
    /\ UNCHANGED <<now, args, inbound, store, sfm, tasks, pc, qry, ctx, loc, started,
                   notCache>>

NextOutage == Next \/ Outage

InitOutage == CacheInit({Arg(LazyTtlCfg, FALSE, "none")}, {<<Question(QName, "A")>>})

SpecOutage == InitOutage /\ [][NextOutage]_vars

-----------------------------------------------------------------------------
(* redis_cache: saveRespToCache and getRespFromCache on one key, under     *)
(* every setting of lazy_cache_ttl, while time passes and the process is   *)
(* restarted with another configuration over the same keyspace.            *)

EnKey == getMsgKey(Query(0, <<Question(QName, "A")>>))

EnArgs == {Arg(lazy, FALSE, "none") : lazy \in {0, LazyTtlCfg, KeepTTL}}

\* The instants at which something happens.
EnClock == {0, 1, 2, 3, 5, 30}

\* The responses handed to saveRespToCache.
SaveResponses ==
    { Msg("up", 1, NOERROR, FALSE, <<RR("A", Good4, 2)>>, <<>>),
      Msg("up", 1, NOERROR, FALSE, <<RR("A", Good4, 0)>>, <<>>),
      Msg("up", 1, NOERROR, FALSE, <<RR("A", Good4, 30)>>, <<>>),
      Msg("up", 1, NOERROR, TRUE, <<RR("A", Good4, 2)>>, <<>>),
      Msg("up", 1, NOERROR, FALSE, <<>>, <<RR("SOA", "ns.example.", 1)>>),
      Msg("up", 1, NOERROR, FALSE, <<>>, <<RR("SOA", "ns.example.", 400)>>),
      Msg("up", 1, NOERROR, FALSE, <<>>, <<>>),
      Msg("up", 1, NXDOMAIN, FALSE, <<>>, <<RR("SOA", "ns.example.", 1)>>),
      Msg("up", 1, NXDOMAIN, FALSE, <<RR("CNAME", GoodName, 2)>>, <<>>),
      Msg("up", 1, SERVFAIL, FALSE, <<>>, <<>>),
      Msg("up", 1, 5, FALSE, <<>>, <<RR("SOA", "ns.example.", 1)>>) }

EnInit ==
    /\ now = 0
    /\ args \in EnArgs
    /\ inbound = {}
    /\ store = [k \in Keys |-> NoEntry]
    /\ sfm = {}
    /\ tasks = [s \in TaskSlots |-> FreeTask]
    /\ pc = [p \in Procs |-> "idle"]
    /\ qry = [p \in Procs |-> Query(0, <<>>)]
    /\ ctx = [p \in Procs |-> NoCtx]
    /\ loc = [p \in Procs |-> NoLoc]
    /\ started = 0
    /\ redisUp = TRUE
    /\ enLast = EnIdle

\* c.saveRespToCache(msgKey, r, c.args.LazyCacheTTL, blackHoleTag)
EnSave ==
    /\ \E r \in SaveResponses, tag \in {"", "bh"} :
          /\ store' = Store(store, saveRespToCache(store, EnKey, r, args.lazy, tag))
          /\ enLast' = [op |-> "save", r |-> r, tag |-> tag,
                        saved |-> ~saveSkipped(r, args.lazy),
                        cacheTtl |-> IF saveSkipped(r, args.lazy) THEN 0
                                     ELSE cacheTtlOf(r, args.lazy)]
    /\ UNCHANGED <<now, args, inbound, sfm, tasks, pc, qry, ctx, loc, started, redisUp,
                   notEn>>

\* c.getRespFromCache(msgKey, lazy enabled, ExpiredMsgTtl), as Exec calls it.
EnGet ==
    /\ LET got == getRespFromCache(Get(store), EnKey,
                      args.lazy > 0 \/ args.lazy = KeepTTL, ExpiredMsgTtl)
       IN  enLast' = [op |-> "get", resp |-> got.resp, lazyHit |-> got.lazyHit]
    /\ UNCHANGED <<now, args, store, inbound, sfm, tasks, pc, qry, ctx, loc, started,
                   redisUp, notEn>>

\* Time passes to a later instant; the server drops the keys that expired.
EnTick ==
    /\ \E t \in EnClock : t > now /\ now' = t /\ store' = RedisExpire(store, t)
    /\ enLast' = [op |-> "tick"]
    /\ UNCHANGED <<args, inbound, sfm, tasks, pc, qry, ctx, loc, started, redisUp, notEn>>

\* The process is started again with another lazy_cache_ttl.
EnRestart ==
    /\ \E a \in EnArgs : a # args /\ args' = a
    /\ enLast' = [op |-> "restart"]
    /\ UNCHANGED <<now, store, inbound, sfm, tasks, pc, qry, ctx, loc, started, redisUp,
                   notEn>>

EnNext == EnSave \/ EnGet \/ EnTick \/ EnRestart

InitEntry == EnInit /\ JcOff /\ GiOff /\ RbOff /\ MsOff /\ KyOff /\ GfOff /\ FdOff /\ GpOff /\ McOff /\ BhOff /\ RlOff /\ EcsOff /\ LsOff /\ NlOff

SpecEntry == InitEntry /\ [][EnNext]_vars

(* memory_cache_backend: MemoryCache and its cleaner goroutine. The clock  *)
(* counts cleaner intervals.                                               *)

MaxMcTime == 3

McKeys == {"k1", "k2"}
McValues == {"a", "b"}

\* cacheTtl of a Store, in cleaner intervals.
McTtls == {-1, 0, 1}

NoElem == [present |-> FALSE]

Elem(v, exp) == [present |-> TRUE, v |-> v, expirationTime |-> exp]

\* NewMemoryCache: an empty map, and gcLoop started.
McInit ==
    /\ mcM = [k \in McKeys |-> NoElem]
    /\ mcClosed = FALSE
    /\ mcNow = 0
    /\ mcTick = NoTick
    /\ mcGc = "select"
    /\ mcLast = McIdle
    /\ mcGet = NoGet

\* MemoryCache.Store
McStore ==
    /\ \E k \in McKeys, v \in McValues, cacheTtl \in McTtls :
          /\ mcM' = IF cacheTtl < 0 THEN mcM
                    ELSE [mcM EXCEPT ![k] = Elem(v, mcNow + cacheTtl)]
          /\ mcLast' = [op |-> "store", key |-> k]
    /\ UNCHANGED <<mcClosed, mcNow, mcTick, mcGc, mcGet, notMc>>

\* MemoryCache.Get, c.m.Get(key): the entry of the key, if any, is read
\* under the lock of the map, and the lock is released.
McGetLookup ==
    /\ mcGet = NoGet
    /\ \E k \in McKeys : mcGet' = [key |-> k, e |-> mcM[k]]
    /\ mcLast' = [op |-> "lookup"]
    /\ UNCHANGED <<mcM, mcClosed, mcNow, mcTick, mcGc, notMc>>

\* Variant: the key is deleted only while it still holds the entry read.
GetDel_IfSame(m, g) == IF m[g.key] = g.e THEN [m EXCEPT ![g.key] = NoElem] ELSE m

\* c.m.Del(key)
GetDel(m, g) == [m EXCEPT ![g.key] = NoElem]

\* MemoryCache.Get, the rest: when the entry read is past its expiration
\* time the key is deleted and nothing is returned.
McGet ==
    /\ mcGet # NoGet
    /\ IF mcGet.e.present /\ mcGet.e.expirationTime < mcNow
         THEN /\ mcM' = GetDel(mcM, mcGet)
              /\ mcLast' = [op |-> "get", key |-> mcGet.key, ok |-> FALSE]
       ELSE /\ mcM' = mcM
            /\ mcLast' = [op |-> "get", key |-> mcGet.key, ok |-> mcGet.e.present,
                          e |-> mcGet.e]
    /\ mcGet' = NoGet
    /\ UNCHANGED <<mcClosed, mcNow, mcTick, mcGc, notMc>>

\* MemoryCache.Close: the first call closes closeNotify; every call returns
\* nil.
McClose ==
    /\ mcClosed' = TRUE
    /\ mcLast' = [op |-> "close", again |-> mcClosed]
    /\ UNCHANGED <<mcM, mcNow, mcTick, mcGc, mcGet, notMc>>

\* One cleaner interval passes: the ticker, unless stopped, sends the time
\* when its channel (of capacity 1) is empty.
McClock ==
    /\ mcNow < MaxMcTime
    /\ mcNow' = mcNow + 1
    /\ mcTick' = IF mcGc = "select" /\ mcTick = NoTick THEN mcNow + 1 ELSE mcTick
    /\ mcLast' = [op |-> "clock"]
    /\ UNCHANGED <<mcM, mcClosed, mcGc, mcGet, notMc>>

\* gc(now): every entry whose expiration time is before now is deleted.
gc(m, t) ==
    [k \in DOMAIN m |-> IF m[k].present /\ t > m[k].expirationTime THEN NoElem ELSE m[k]]

\* gcLoop, case now := <-ticker.C. select takes any case that can proceed,
\* whether or not closeNotify is closed as well.
McGcTick ==
    /\ mcGc = "select" /\ mcTick # NoTick
    /\ mcM' = gc(mcM, mcTick)
    /\ mcTick' = NoTick
    /\ mcLast' = [op |-> "gc", closed |-> mcClosed]
    /\ UNCHANGED <<mcClosed, mcNow, mcGc, mcGet, notMc>>

\* gcLoop, case <-c.closeNotify: return, and the deferred ticker.Stop().
McGcReturn ==
    /\ mcGc = "select" /\ mcClosed
    /\ mcGc' = "returned"
    /\ mcLast' = [op |-> "return"]
    /\ UNCHANGED <<mcM, mcClosed, mcNow, mcTick, mcGet, notMc>>

McNext == McStore \/ McGetLookup \/ McGet \/ McClose \/ McClock \/ McGcTick \/ McGcReturn

-----------------------------------------------------------------------------
(* v2ray_geoip and geoip: the netlist built from the entries of a geo IP   *)
(* file. An address is [len, text], len the length of the byte slice in    *)
(* the file; a CIDR is [ip, prefix].                                       *)

MaxEntries == 2
MaxCidrs == 2

GeoCodes == {"CN", "US"}

Cidr(len, text, prefix) == [ip |-> [len |-> len, text |-> text], prefix |-> prefix]

\* A valid IPv4 and a valid IPv6 network, an IPv4 address with prefix length
\* 33 and a slice of 5 bytes.
GeoCidrs == { Cidr(4, "192.0.2.0", 24), Cidr(16, "2001:db8::", 64),
              Cidr(4, "198.51.100.0", 33), Cidr(5, "0102030405", 8) }

\* netip.AddrFromSlice: ok for slices of 4 and of 16 bytes.
AddrFromSlice(ip) == [ip |-> ip, ok |-> ip.len \in {4, 16}]

\* netip.Addr.BitLen
BitLen(ip) == IF ip.len = 4 THEN 32 ELSE 128

InvalidPrefix == [valid |-> FALSE]

\* netip.Addr.Prefix(b): the zero Prefix and an error when b exceeds the
\* address length. The masking of the host bits is the netlist's concern.
AddrPrefix(ip, b) ==
    IF b < 0 \/ b > BitLen(ip) THEN [prefix |-> InvalidPrefix, err |-> TRUE]
    ELSE [prefix |-> [valid |-> TRUE, ip |-> ip, bits |-> b], err |-> FALSE]

\* v2ray_geoip, the loop over entry.Cidr from index i: [l, err]. The result
\* of ip.Prefix is tested with ok of AddrFromSlice, never with its own err.
RECURSIVE V2rayCidrs(_, _, _)
V2rayCidrs(l, cidrs, i) ==
    IF i > Len(cidrs) THEN [l |-> l, err |-> "none"]
    ELSE LET a == AddrFromSlice(cidrs[i].ip)
             p == AddrPrefix(a.ip, cidrs[i].prefix)
         IN  IF ~a.ok THEN [l |-> l, err |-> "invalid ip"]
             ELSE IF ~a.ok THEN [l |-> l, err |-> "invalid prefix"]
             ELSE V2rayCidrs(Append(l, p.prefix), cidrs, i + 1)

\* v2ray_geoip loadFromGeoip, from entry i: entries whose code is not asked
\* for are passed over.
RECURSIVE loadFromGeoip(_, _, _, _)
loadFromGeoip(l, entries, cs, i) ==
    IF i > Len(entries) THEN [l |-> l, err |-> "none"]
    ELSE IF entries[i].code \notin cs THEN loadFromGeoip(l, entries, cs, i + 1)
    ELSE LET r == V2rayCidrs(l, entries[i].cidr, 1)
         IN  IF r.err # "none" THEN r ELSE loadFromGeoip(r.l, entries, cs, i + 1)

\* geofile.LoadIP: the CIDRs of the first entry of the file with the code,
\* none when there is no such entry.
LoadIP(entries, code) ==
    LET hits == {i \in DOMAIN entries : entries[i].code = code}
    IN  IF hits = {} THEN <<>>
        ELSE entries[CHOOSE i \in hits : \A j \in hits : i <= j].cidr

\* geoip LoadFile, the loop over cidrs from index i: [l, err].
RECURSIVE GeoipCidrs(_, _, _)
GeoipCidrs(tmpList, cidrs, i) ==
    IF i > Len(cidrs) THEN [l |-> tmpList, err |-> "none"]
    ELSE LET a == AddrFromSlice(cidrs[i].ip)
             p == AddrPrefix(a.ip, cidrs[i].prefix)
         IN  IF ~a.ok THEN [l |-> tmpList, err |-> "invalid ip"]
             ELSE IF p.err THEN [l |-> tmpList, err |-> "invalid prefix"]
             ELSE GeoipCidrs(Append(tmpList, p.prefix), cidrs, i + 1)

\* geoip LoadFile(file, code, l): [l, err].
LoadFile(l, entries, code) ==
    LET cidrs == LoadIP(entries, code)
        r     == GeoipCidrs(<<>>, cidrs, 1)
    IN  IF Len(cidrs) = 0 THEN [l |-> l, err |-> "not found"]
        ELSE IF r.err # "none" THEN [l |-> l, err |-> r.err]
        ELSE [l |-> l \o r.l, err |-> "none"]

GeoCidrLists == UNION {[1..n -> GeoCidrs] : n \in 0..MaxCidrs}

GeoEntries == [code : GeoCodes, cidr : GeoCidrLists]

GeoFiles == UNION {[1..n -> GeoEntries] : n \in 0..MaxEntries}

GpInit ==
    /\ gpFile \in GeoFiles
    /\ gpCode \in GeoCodes \cup {"JP"}
    /\ gpLast = GpIdle

\* The matcher a constructor hands out: none after an error, else the group
\* holding the list when it has entries.
GpMatcher(r) ==
    IF r.err # "none" THEN [made |-> FALSE]
    ELSE [made |-> TRUE, mg |-> IF Len(r.l) > 0 THEN <<r.l>> ELSE <<>>]

\* v2ray_geoip NewV2rayGeoip with one file and one code.
GpNewV2rayGeoip ==
    /\ gpLast = GpIdle
    /\ LET r == loadFromGeoip(<<>>, gpFile, {gpCode}, 1)
       IN  gpLast' = [loader |-> "v2ray_geoip", err |-> r.err, matcher |-> GpMatcher(r)]
    /\ UNCHANGED <<gpFile, gpCode, notGp>>

\* geoip NewV2rayGeoip with one "file:code".
GpNewGeoip ==
    /\ gpLast = GpIdle
    /\ LET r == LoadFile(<<>>, gpFile, gpCode)
       IN  gpLast' = [loader |-> "geoip", err |-> r.err, matcher |-> GpMatcher(r)]
    /\ UNCHANGED <<gpFile, gpCode, notGp>>

GpNext == GpNewV2rayGeoip \/ GpNewGeoip

-----------------------------------------------------------------------------
(* geofile: find and decodeVarint. Bytes are 0..255; a slice is a sequence *)
(* of bytes, data[i] of the code is element i + 1.                         *)

MaxRecords == 3

\* What find returns: nil, a slice, or the panic of an index out of range.
FindNil == [kind |-> "nil"]
FindPanic == [kind |-> "panic"]
FindBody(bs) == [kind |-> "body", bytes |-> bs]

\* decodeVarint from byte n of buf with x and shift so far: [x, n]. The
\* lengths of the model need two bytes at most.
RECURSIVE decodeVarintFrom(_, _, _, _)
decodeVarintFrom(buf, n, x, shift) ==
    IF shift >= 64 \/ n >= Len(buf) THEN [x |-> 0, n |-> 0]
    ELSE LET b  == buf[n + 1]
             x1 == x + (b % 128) * (2 ^ shift)
         IN  IF b < 128 THEN [x |-> x1, n |-> n + 1]
             ELSE decodeVarintFrom(buf, n + 1, x1, shift + 7)

decodeVarint(buf) == decodeVarintFrom(buf, 0, 0, 0)

\* The loop 'for i := 0; i < codeL && data[2+i] == code[i]; i++' from i:
\* "equal" when it returns the body, "differ" when it ends without.
RECURSIVE CodeLoop(_, _, _)
CodeLoop(data, code, i) ==
    IF 2 + i >= Len(data) THEN "panic"
    ELSE IF data[3 + i] # code[i + 1] THEN "differ"
    ELSE IF i + 1 = Len(code) THEN "equal"
    ELSE CodeLoop(data, code, i + 1)

\* Variant: the length byte of the record's code is not looked at.
CodeHit_AnyLength(data, code) == CodeLoop(data, code, 0)

\* if int(data[1]) == codeL { the loop }
CodeHit(data, code) ==
    IF data[2] = Len(code) THEN CodeLoop(data, code, 0) ELSE "differ"

\* One turn of the for loop of find on data.
RECURSIVE findLoop(_, _)
findLoop(data0, code) ==
    IF Len(data0) < 2 THEN FindNil
    ELSE LET v     == decodeVarint(Tail(data0))
             headL == 1 + v.n
             bodyL == v.x
             dataL == Len(data0) - headL
             data  == SubSeq(data0, headL + 1, Len(data0))
         IN  IF v.x = 0 /\ v.n = 0 THEN FindNil
             ELSE IF dataL < bodyL THEN FindNil
             ELSE IF Len(data) < 2 THEN FindPanic
             ELSE IF CodeHit(data, code) = "panic" THEN FindPanic
             ELSE IF CodeHit(data, code) = "equal" THEN FindBody(SubSeq(data, 1, bodyL))
             ELSE IF dataL = bodyL THEN FindNil
             ELSE findLoop(SubSeq(data, bodyL + 1, Len(data)), code)

find(data, code) == IF Len(code) = 0 THEN FindNil ELSE findLoop(data, code)

\* proto.EncodeVarint
RECURSIVE EncodeVarint(_)
EncodeVarint(x) ==
    IF x < 128 THEN <<x>> ELSE <<128 + (x % 128)>> \o EncodeVarint(x \div 128)

\* A length-delimited field 1: the tag byte 0x0A, the length, the bytes.
Field1(bs) == <<10>> \o EncodeVarint(Len(bs)) \o bs

\* The body of a record: the code as field 1, then the payload.
RecordBody(r) == Field1(r.code) \o r.payload

\* The file: each body as field 1 of the list.
RECURSIVE EncodeRecords(_)
EncodeRecords(rs) ==
    IF rs = <<>> THEN <<>> ELSE Field1(RecordBody(Head(rs))) \o EncodeRecords(Tail(rs))

\* "C", "CN", "CNX", "US" in ASCII.
FdCodes == {<<67>>, <<67, 78>>, <<67, 78, 88>>, <<85, 83>>}

\* No payload, one CIDR, and a payload that makes the body longer than 127
\* bytes.
FdPayloads == {<<>>, <<18, 6, 10, 2, 67, 78, 16, 8>>, [i \in 1..126 |-> 1]}

FdRecords == [code : FdCodes, payload : FdPayloads]

FdInit ==
    /\ fdRecs \in UNION {[1..n -> FdRecords] : n \in 0..MaxRecords}
    /\ fdData = EncodeRecords(fdRecs)
    /\ fdCode \in FdCodes \cup {<<>>, <<67, 65>>}
    /\ fdLast = FdIdle

\* find(data, code)
FdFind ==
    /\ fdLast = FdIdle
    /\ fdLast' = [op |-> "find", got |-> find(fdData, fdCode)]
    /\ UNCHANGED <<fdRecs, fdData, fdCode, notFd>>

FdNext == FdFind

-----------------------------------------------------------------------------
(* geofile: LoadIP over readAsset (with FileCache and IPCache) and over    *)
(* readAssetByCache (with fileCache).                                      *)

MaxReads == 3

GfFiles == {"geoip.dat", "private.dat", "gone.dat"}

\* "CN", "US" and "JP" in ASCII.
GfCodes == {<<67, 78>>, <<85, 83>>, <<74, 80>>}

NilBytes == <<>>

\* The files on disk: geoip.dat holds a CN and a US record, private.dat a
\* JP record, gone.dat does not exist.
GfDisk(file) ==
    IF file = "geoip.dat"
      THEN EncodeRecords(<<[code |-> <<67, 78>>, payload |-> <<18, 6, 10, 2, 67, 78, 16, 8>>],
                           [code |-> <<85, 83>>, payload |-> <<>>]>>)
    ELSE IF file = "private.dat"
      THEN EncodeRecords(<<[code |-> <<74, 80>>, payload |-> <<18, 1, 7>>]>>)
    ELSE NilBytes

\* readFile: [bytes, err, opened].
readFile(file) ==
    IF GfDisk(file) = NilBytes THEN [bytes |-> NilBytes, err |-> TRUE, opened |-> 0]
    ELSE [bytes |-> GfDisk(file), err |-> FALSE, opened |-> 1]

\* readAsset: [bytes, err, opened, cache].
readAsset(cache, file) ==
    IF cache[file] # NilBytes
      THEN [bytes |-> cache[file], err |-> FALSE, opened |-> 0, cache |-> cache]
    ELSE LET r == readFile(file)
         IN  IF r.err THEN [bytes |-> NilBytes, err |-> TRUE, opened |-> 0, cache |-> cache]
             ELSE [bytes |-> r.bytes, err |-> FALSE, opened |-> r.opened,
                   cache |-> [cache EXCEPT ![file] = r.bytes]]

\* readAssetByCache: what goes into the map is fileBytes, the nil slice the
\* lookup returned, not bytes.
readAssetByCache(cache, file) ==
    LET fileBytes == cache[file]
    IN  IF fileBytes # NilBytes
          THEN [bytes |-> fileBytes, err |-> FALSE, opened |-> 0, cache |-> cache]
        ELSE LET r == readFile(file)
             IN  IF r.err THEN [bytes |-> NilBytes, err |-> TRUE, opened |-> 0, cache |-> cache]
                 ELSE [bytes |-> r.bytes, err |-> FALSE, opened |-> r.opened,
                       cache |-> [cache EXCEPT ![file] = fileBytes]]

GfInit ==
    /\ gfBuild \in {"readAsset", "readAssetByCache"}
    /\ gfFileCache = [f \in GfFiles |-> NilBytes]
    /\ gfIPCache = [k \in GfFiles \X GfCodes |-> FindNil]
    /\ gfReads = 0
    /\ gfLoaded = {}
    /\ gfLast = GfIdle

\* What a load of file leaves in the record of the files read with success.
GfNote(file, r) == IF r.err THEN gfLoaded ELSE gfLoaded \cup {file}

\* LoadIP over readAsset: the decoded entry is kept in IPCache.
GfLoadIP ==
    /\ gfBuild = "readAsset" /\ gfReads < MaxReads
    /\ \E file \in GfFiles, code \in GfCodes :
          LET key == <<file, code>>
              r   == readAsset(gfFileCache, file)
              bs  == find(r.bytes, code)
          IN  IF gfIPCache[key] # FindNil
                THEN /\ gfLast' = [op |-> "load", file |-> file, code |-> code,
                                   err |-> FALSE, got |-> gfIPCache[key]]
                     /\ UNCHANGED <<gfFileCache, gfIPCache, gfReads, gfLoaded>>
              ELSE /\ gfFileCache' = r.cache
                   /\ gfReads' = gfReads + r.opened
                   /\ gfLoaded' = GfNote(file, r)
                   /\ gfIPCache' = IF r.err \/ bs = FindNil THEN gfIPCache
                                   ELSE [gfIPCache EXCEPT ![key] = bs]
                   /\ gfLast' = [op |-> "load", file |-> file, code |-> code,
                                 err |-> r.err, got |-> IF r.err THEN FindNil ELSE bs]
    /\ UNCHANGED <<gfBuild, notGf>>

\* LoadIP over readAssetByCache.
GfLoadIPByCache ==
    /\ gfBuild = "readAssetByCache" /\ gfReads < MaxReads
    /\ \E file \in GfFiles, code \in GfCodes :
          LET r  == readAssetByCache(gfFileCache, file)
              bs == find(r.bytes, code)
          IN  /\ gfFileCache' = r.cache
              /\ gfReads' = gfReads + r.opened
              /\ gfLoaded' = GfNote(file, r)
              /\ gfLast' = [op |-> "load", file |-> file, code |-> code,
                            err |-> r.err, got |-> IF r.err THEN FindNil ELSE bs]
    /\ UNCHANGED <<gfBuild, gfIPCache, notGf>>

\* Release: every map is replaced by an empty one.
GfRelease ==
    /\ gfFileCache' = [f \in GfFiles |-> NilBytes]
    /\ gfIPCache' = [k \in GfFiles \X GfCodes |-> FindNil]
    /\ gfLoaded' = {}
    /\ gfLast' = [op |-> "release"]
    /\ UNCHANGED <<gfBuild, gfReads, notGf>>

GfNext == GfLoadIP \/ GfLoadIPByCache \/ GfRelease

-----------------------------------------------------------------------------
(* redis_cache: getMsgKey on two single-question queries.                 *)

KyQuestions ==
    [name : {"a.example.", "b.example."},
     qtype : {"A", "AAAA", "TYPE65280", "TYPE65281"},
     qclass : {"IN", "CH", "CLASS65280"}]

KyInit ==
    /\ kyA \in KyQuestions
    /\ kyB \in KyQuestions
    /\ kyLast = KyIdle

\* getMsgKey of both queries.
KyKeys ==
    /\ kyLast = KyIdle
    /\ kyLast' = [op |-> "keys", a |-> getMsgKey(Query(1, <<kyA>>)),
                  b |-> getMsgKey(Query(2, <<kyB>>))]
    /\ UNCHANGED <<kyA, kyB, notKy>>

KyNext == KyKeys

-----------------------------------------------------------------------------
(* memory_cache: saveRespToCache and the duration it hands to Store. An   *)
(* int64 is its eight bytes in two's complement, least significant first.  *)

\* Byte i of the natural number n.
RECURSIVE ByteOf(_, _)
ByteOf(n, i) == IF i = 1 THEN n % 256 ELSE ByteOf(n \div 256, i - 1)

\* int64(n) for 0 <= n < 2^31.
Int64(n) == [i \in 1..8 |-> ByteOf(n, i)]

\* The sum of a[i] * b[k + 1 - i] for i from i to k.
RECURSIVE ColumnSum(_, _, _, _)
ColumnSum(a, b, k, i) ==
    IF i > k THEN 0 ELSE a[i] * b[k + 1 - i] + ColumnSum(a, b, k, i + 1)

\* Bytes k..8 of a * b with the carry into byte k; the carry out of byte 8
\* is dropped, as the machine multiplication drops it.
RECURSIVE MulFrom(_, _, _, _)
MulFrom(a, b, k, carry) ==
    IF k > 8 THEN <<>>
    ELSE LET s == carry + ColumnSum(a, b, k, 1)
         IN  <<s % 256>> \o MulFrom(a, b, k + 1, s \div 256)

\* a * b on int64
Mul64(a, b) == MulFrom(a, b, 1, 0)

Negative64(a) == a[8] >= 128

\* time.Second, in nanoseconds: 1000000000 = 0x3B9ACA00.
TimeSecond == <<0, 202, 154, 59, 0, 0, 0, 0>>

\* time.Duration(n) * time.Second
Seconds64(n) == Mul64(Int64(n), TimeSecond)

\* memory_cache saveRespToCache: cacheTtl in seconds, 0 when no case of the
\* switch applies.
memCacheTtlOf(r, lazyCacheTtl) ==
    CASE r.rcode = NXDOMAIN -> NameErrorTtl
      [] r.rcode = SERVFAIL -> ServerFailureTtl
      [] r.rcode = NOERROR  ->
            IF Len(r.answer) = 0 THEN msgTtlOf(r)
            ELSE IF lazyCacheTtl > 0 THEN lazyCacheTtl
            ELSE msgTtlOf(r)
      [] OTHER -> 0

\* Variant: cacheTtl is handed to Store as it is.
HandedToStore_Plain(cacheTtl) == Seconds64(cacheTtl)

\* backend.Store(key, v, cacheTtl*time.Second): cacheTtl is a Duration
\* already.
HandedToStore(cacheTtl) == Mul64(Seconds64(cacheTtl), TimeSecond)

\* MemoryCache.Store: nothing when cacheTtl < 0.
MemStore(m, v, cacheTtl) ==
    IF Negative64(cacheTtl) THEN m ELSE [present |-> TRUE, v |-> v, life |-> cacheTtl]

MsTtls == {1, 5, 9, 10, 18, 19, 60, 300, 3600}

MsResponses ==
    SaveResponses \cup {Msg("up", 1, NOERROR, FALSE, <<RR("A", Good4, t)>>, <<>>) : t \in MsTtls}

MsInit ==
    /\ msLazy \in {0, LazyTtlCfg, 86400}
    /\ msM = NoMsElem
    /\ msLast = MsIdle

\* saveRespToCache(msgKey, r, backend, lazyCacheTtl)
MsSave ==
    /\ \E r \in MsResponses :
          LET msgTtl   == msgTtlOf(r)
              cacheTtl == memCacheTtlOf(r, msLazy)
          IN  IF r.tc \/ msgTtl <= 0 \/ cacheTtl <= 0
                THEN /\ msM' = msM
                     /\ msLast' = [op |-> "save", r |-> r, saved |-> FALSE]
              ELSE /\ msM' = MemStore(msM, r, HandedToStore(cacheTtl))
                   /\ msLast' = [op |-> "save", r |-> r, saved |-> TRUE,
                                 cacheTtl |-> cacheTtl, handed |-> HandedToStore(cacheTtl)]
    /\ UNCHANGED <<msLazy, notMs>>

\* MemoryCache.Flush
MsFlush ==
    /\ msM' = NoMsElem
    /\ msLast' = [op |-> "flush"]
    /\ UNCHANGED <<msLazy, notMs>>

MsNext == MsSave \/ MsFlush

-----------------------------------------------------------------------------
(* redis_cache_backend: the RedisCache instances and the clients they share *)
(* through the package map backends.                                       *)

MaxClients == 3
MaxInst == 3

RbAddrs == {"redis://a", "redis://b"}
RbSlots == 1..MaxInst
RbKeys == {"k"}

NoInst == [addr |-> "none", client |-> 0, closed |-> TRUE]

RbInit ==
    /\ rbClients = <<>>
    /\ rbBackends = [a \in RbAddrs |-> 0]
    /\ rbInst = [s \in RbSlots |-> NoInst]
    /\ rbData = [a \in RbAddrs |-> {}]
    /\ rbLast = RbIdle

\* NewRedisCache(addr): the client of backends[addr], or a new client put
\* there. The instance takes the place of none or of a closed one.
RbNewRedisCache ==
    /\ \E s \in RbSlots, addr \in RbAddrs :
          /\ rbInst[s].closed
          /\ IF rbBackends[addr] # 0
               THEN /\ rbInst' = [rbInst EXCEPT ![s] = [addr |-> addr, client |-> rbBackends[addr],
                                                        closed |-> FALSE]]
                    /\ UNCHANGED <<rbClients, rbBackends>>
             ELSE /\ Len(rbClients) < MaxClients
                  /\ rbClients' = Append(rbClients, [addr |-> addr, open |-> TRUE])
                  /\ rbBackends' = [rbBackends EXCEPT ![addr] = Len(rbClients) + 1]
                  /\ rbInst' = [rbInst EXCEPT ![s] = [addr |-> addr, client |-> Len(rbClients) + 1,
                                                      closed |-> FALSE]]
          /\ rbLast' = [op |-> "new", slot |-> s]
    /\ UNCHANGED <<rbData, notRb>>

\* Variant: Close leaves the shared client and the map alone.
CloseClient_Keep(clients, backends, inst) == <<clients, backends>>

\* RedisCache.Close: delete(backends, c.addr) and c.client.Close().
CloseClient(clients, backends, inst) ==
    <<[clients EXCEPT ![inst.client].open = FALSE], [backends EXCEPT ![inst.addr] = 0]>>

\* RedisCache.Close
RbClose ==
    /\ \E s \in RbSlots :
          /\ rbInst[s] # NoInst
          /\ LET r == CloseClient(rbClients, rbBackends, rbInst[s])
             IN  rbClients' = r[1] /\ rbBackends' = r[2]
          /\ rbInst' = [rbInst EXCEPT ![s].closed = TRUE]
          /\ rbLast' = [op |-> "close", slot |-> s, err |-> ~rbClients[rbInst[s].client].open]
    /\ UNCHANGED <<rbData, notRb>>

\* RedisCache.Store: c.client.Set; the error of a closed client is logged.
RbStore ==
    /\ \E s \in RbSlots, k \in RbKeys :
          /\ rbInst[s] # NoInst
          /\ LET up == rbClients[rbInst[s].client].open
             IN  /\ rbData' = IF up THEN [rbData EXCEPT ![rbInst[s].addr] = @ \cup {k}]
                               ELSE rbData
                 /\ rbLast' = [op |-> "store", slot |-> s, live |-> ~rbInst[s].closed,
                               err |-> ~up]
    /\ UNCHANGED <<rbClients, rbBackends, rbInst, notRb>>

\* RedisCache.Get: c.client.Get; any error gives ok = false.
RbGet ==
    /\ \E s \in RbSlots, k \in RbKeys :
          /\ rbInst[s] # NoInst
          /\ LET up == rbClients[rbInst[s].client].open
             IN  rbLast' = [op |-> "get", slot |-> s, live |-> ~rbInst[s].closed,
                            err |-> ~up, ok |-> up /\ k \in rbData[rbInst[s].addr]]
    /\ UNCHANGED <<rbClients, rbBackends, rbInst, rbData, notRb>>

RbNext == RbNewRedisCache \/ RbClose \/ RbStore \/ RbGet

-----------------------------------------------------------------------------
(* geoip: NewV2rayGeoip over args.Files and args.Ips, and the matcher it    *)
(* hands out. The lists are net lists of prefixes [base, bits].            *)

MaxGiFiles == 2
MaxGiIps == 2

\* List.Sort as a function: the merge keeps the broadest of the entries of
\* one base, so the order the sort leaves them in does not show.
SortedMerged(list) ==
    LET f == CHOOSE g \in SortOrders(list) : TRUE
    IN  Merge([i \in DOMAIN list |-> list[f[i]]], Len(list))

GiPrefixes == {Masked(a, b) : a \in NlAddrs, b \in 0..AddrWidth}

\* What a "file:code" may yield: one prefix, two prefixes out of order, two
\* prefixes one inside the other, and a code the file does not have.
GiFileLists ==
    { <<Masked(0, 1)>>, <<Masked(3, 2), Masked(1, 2)>>, <<Masked(2, 2), Masked(2, 1)>>, <<>> }

\* NewV2rayGeoip, the loop over args.Files from file i: [err, l, n], n the
\* length of v2gs.mg. Every element of mg is the one list l.
RECURSIVE GiFilesLoop(_, _, _, _)
GiFilesLoop(l, n, files, i) ==
    IF i > Len(files) THEN [err |-> FALSE, l |-> l, n |-> n]
    ELSE IF files[i] = <<>> THEN [err |-> TRUE, l |-> l, n |-> n]
    ELSE GiFilesLoop(SortedMerged(l \o files[i]), n + 1, files, i + 1)

\* Variant: the list is sorted and put into mg after the inline ips.
GiInline_Sorted(r, ips) ==
    IF ips = <<>> THEN r
    ELSE [r EXCEPT !.l = SortedMerged(r.l \o ips), !.n = IF r.n = 0 THEN 1 ELSE r.n]

\* ip_set.LoadFromIPs(args.Ips, l): each prefix is appended to l.
GiInline(r, ips) == [r EXCEPT !.l = r.l \o ips]

GiInit ==
    /\ giFiles \in UNION {[1..n -> GiFileLists] : n \in 0..MaxGiFiles}
    /\ giIps \in UNION {[1..n -> GiPrefixes] : n \in 0..MaxGiIps}
    /\ giMade = GiNone
    /\ giLast = GiIdle

\* NewV2rayGeoip
GiNewV2rayGeoip ==
    /\ giLast = GiIdle
    /\ LET f == GiFilesLoop(<<>>, 0, giFiles, 1)
           r == GiInline(f, giIps)
       IN  giMade' = IF f.err THEN [made |-> FALSE, err |-> TRUE]
                     ELSE [made |-> TRUE, mg |-> [k \in 1..r.n |-> r.l]]
    /\ giLast' = [op |-> "new"]
    /\ UNCHANGED <<giFiles, giIps, notGi>>

\* MatcherGroup.Match
GroupMatch(mg, addr) == \E k \in DOMAIN mg : Match(mg[k], addr)

\* GetIPMatcher().Match(addr)
GiMatch ==
    /\ giMade.made
    /\ \E addr \in NlAddrs :
          giLast' = [op |-> "match", addr |-> addr, got |-> GroupMatch(giMade.mg, addr)]
    /\ UNCHANGED <<giFiles, giIps, giMade, notGi>>

GiNext == GiNewV2rayGeoip \/ GiMatch

-----------------------------------------------------------------------------
(* pkg/redis_cache: Item as JSON, saveRespToCache and getRespFromCache.    *)

MaxJcTime == 3

\* time.Time as json.Marshal writes it, and time.Parse(layout, s) of that.
TimeToJson(t) == [rfc3339 |-> t]
TimeFromJson(s) == s.rfc3339

\* marshalDNSItemToJson: json.Marshal writes every exported field of the
\* Item and of its dns.Msg.
marshalDNSItemToJson(item) ==
    [Resp |-> [item.Resp EXCEPT !.ptr = "json"],
     StoredTime |-> TimeToJson(item.StoredTime),
     ExpirationTime |-> TimeToJson(item.ExpirationTime)]

\* Variant: resolve takes the header of the message from the JSON as well.
resolve_WithHeader(root) == [root EXCEPT !.ptr = "cached"]

\* resolve(root, msg) on msg = &dns.Msg{}: the nodes of Answer, Ns and Extra
\* are decoded into records; no other field of msg is assigned.
resolve(root) ==
    [ptr |-> "cached", id |-> 0, rcode |-> 0, tc |-> FALSE,
     answer |-> root.answer, ns |-> root.ns, extra |-> root.extra]

unmarshalDNSItemFromJson(raw) ==
    [Resp |-> resolve(raw.Resp),
     StoredTime |-> TimeFromJson(raw.StoredTime),
     ExpirationTime |-> TimeFromJson(raw.ExpirationTime)]

\* backend.Store(msgKey, msg, cacheTtl): SET with EX or KEEPTTL.
JcSet(entry, v, cacheTtl, t) ==
    IF cacheTtl = KeepTTL
      THEN IF entry.present THEN [entry EXCEPT !.v = v]
           ELSE [present |-> TRUE, v |-> v, volatile |-> FALSE, exp |-> 0]
    ELSE [present |-> TRUE, v |-> v, volatile |-> TRUE, exp |-> t + cacheTtl]

\* getRespFromCache(msgKey, backend, lazyCacheEnabled, lazyTtl): the
\* response, NoMsg for (nil, false).
JsonGetRespFromCache(entry, t, lazyCacheEnabled, lazyTtl) ==
    LET item == unmarshalDNSItemFromJson(entry.v)
    IN  IF ~entry.present THEN [resp |-> NoMsg, lazyHit |-> FALSE]
        ELSE IF t < item.ExpirationTime
          THEN [resp |-> SubtractTTL(item.Resp, Seconds(item.StoredTime, t)),
                lazyHit |-> FALSE]
        ELSE IF lazyCacheEnabled
          THEN [resp |-> SetTTL(item.Resp, lazyTtl), lazyHit |-> TRUE]
        ELSE [resp |-> NoMsg, lazyHit |-> FALSE]

JcInit ==
    /\ jcLazy \in {0, LazyTtlCfg, KeepTTL}
    /\ jcNow = 0
    /\ jcEntry = NoEntry
    /\ jcLast = JcIdle

\* RedisCache.Store(q, r): saveRespToCache(msgKey, r, backend, lazyCacheTtl)
JcStore ==
    /\ \E r \in SaveResponses :
          IF saveSkipped(r, jcLazy)
            THEN /\ jcEntry' = jcEntry
                 /\ jcLast' = [op |-> "store", r |-> r, saved |-> FALSE]
          ELSE /\ jcEntry' = JcSet(jcEntry,
                                   marshalDNSItemToJson([Resp |-> r, StoredTime |-> jcNow,
                                        ExpirationTime |-> jcNow + msgTtlOf(r)]),
                                   cacheTtlOf(r, jcLazy), jcNow)
               /\ jcLast' = [op |-> "store", r |-> r, saved |-> TRUE]
    /\ UNCHANGED <<jcLazy, jcNow, notJc>>

\* RedisCache.Get(q): getRespFromCache(msgKey, backend, false, LazyCacheTTL)
JcGet ==
    /\ LET got == JsonGetRespFromCache(jcEntry, jcNow, FALSE, jcLazy)
       IN  jcLast' = [op |-> "get", resp |-> got.resp, lazyHit |-> got.lazyHit]
    /\ UNCHANGED <<jcLazy, jcNow, jcEntry, notJc>>

\* A second passes; the server drops the key when its expiry is reached.
JcTick ==
    /\ jcNow < MaxJcTime
    /\ jcNow' = jcNow + 1
    /\ jcEntry' = IF jcEntry.present /\ jcEntry.volatile /\ jcEntry.exp <= jcNow + 1
                    THEN NoEntry ELSE jcEntry
    /\ jcLast' = [op |-> "tick"]
    /\ UNCHANGED <<jcLazy, notJc>>

JcNext == JcStore \/ JcGet \/ JcTick

-----------------------------------------------------------------------------
\* The cache at rest, for the specifications of the other plugins.
CacheOff ==
    /\ now = 0
    /\ args = [lazy |-> 0, storeOnly |-> FALSE, icpt |-> "none"]
    /\ inbound = {}
    /\ store = [k \in Keys |-> NoEntry]
    /\ sfm = {}
    /\ tasks = [s \in TaskSlots |-> FreeTask]
    /\ pc = [p \in Procs |-> "idle"]
    /\ qry = [p \in Procs |-> Query(0, <<>>)]
    /\ ctx = [p \in Procs |-> NoCtx]
    /\ loc = [p \in Procs |-> NoLoc]
    /\ started = 0
    /\ redisUp = TRUE

BhNext ==
    \/ BhBlackHole /\ UNCHANGED notBh
    \/ BhMatchBlackHole /\ UNCHANGED notBh

InitBlackHole == BhInit /\ CacheOff /\ RlOff /\ EcsOff /\ LsOff /\ NlOff /\ EnOff /\ McOff /\ GpOff /\ FdOff /\ GfOff /\ KyOff /\ MsOff /\ RbOff /\ GiOff /\ JcOff

SpecBlackHole == InitBlackHole /\ [][BhNext]_vars

RlNext == RlExec \/ RlTick

InitReverseLookup == RlInit /\ CacheOff /\ BhOff /\ EcsOff /\ LsOff /\ NlOff /\ EnOff /\ McOff /\ GpOff /\ FdOff /\ GfOff /\ KyOff /\ MsOff /\ RbOff /\ GiOff /\ JcOff

SpecReverseLookup == InitReverseLookup /\ [][RlNext]_vars

EcsNext == EcsCleanUp \/ EcsAdd

InitEcs == EcsInit /\ CacheOff /\ BhOff /\ RlOff /\ LsOff /\ NlOff /\ EnOff /\ McOff /\ GpOff /\ FdOff /\ GfOff /\ KyOff /\ MsOff /\ RbOff /\ GiOff /\ JcOff

SpecEcs == InitEcs /\ [][EcsNext]_vars

LsNext == LsBatch \/ LsReset6 \/ LsTurn \/ LsPublish \/ LsWarmUp \/ LsQuery

InitLeases == LsInit /\ CacheOff /\ BhOff /\ RlOff /\ EcsOff /\ NlOff /\ EnOff /\ McOff /\ GpOff /\ FdOff /\ GfOff /\ KyOff /\ MsOff /\ RbOff /\ GiOff /\ JcOff

SpecLeases == InitLeases /\ [][LsNext]_vars

NlNext == NlAppend \/ NlSort \/ NlMatch

InitNetList == NlInit /\ CacheOff /\ BhOff /\ RlOff /\ EcsOff /\ LsOff /\ EnOff /\ McOff /\ GpOff /\ FdOff /\ GfOff /\ KyOff /\ MsOff /\ RbOff /\ GiOff /\ JcOff

SpecNetList == InitNetList /\ [][NlNext]_vars

InitMemoryCache == McInit /\ CacheOff /\ BhOff /\ RlOff /\ EcsOff /\ LsOff /\ NlOff /\ EnOff /\ GpOff /\ FdOff /\ GfOff /\ KyOff /\ MsOff /\ RbOff /\ GiOff /\ JcOff

SpecMemoryCache == InitMemoryCache /\ [][McNext]_vars

InitGeoip == GpInit /\ CacheOff /\ BhOff /\ RlOff /\ EcsOff /\ LsOff /\ NlOff /\ EnOff /\ McOff /\ FdOff /\ GfOff /\ KyOff /\ MsOff /\ RbOff /\ GiOff /\ JcOff

SpecGeoip == InitGeoip /\ [][GpNext]_vars

InitFind == FdInit /\ CacheOff /\ BhOff /\ RlOff /\ EcsOff /\ LsOff /\ NlOff /\ EnOff /\ McOff /\ GpOff /\ GfOff /\ KyOff /\ MsOff /\ RbOff /\ GiOff /\ JcOff

SpecFind == InitFind /\ [][FdNext]_vars

InitGeofile == GfInit /\ CacheOff /\ BhOff /\ RlOff /\ EcsOff /\ LsOff /\ NlOff /\ EnOff /\ McOff /\ GpOff /\ FdOff /\ KyOff /\ MsOff /\ RbOff /\ GiOff /\ JcOff

SpecGeofile == InitGeofile /\ [][GfNext]_vars

InitKey == KyInit /\ CacheOff /\ BhOff /\ RlOff /\ EcsOff /\ LsOff /\ NlOff /\ EnOff /\ McOff /\ GpOff /\ FdOff /\ GfOff /\ MsOff /\ RbOff /\ GiOff /\ JcOff

SpecKey == InitKey /\ [][KyNext]_vars

InitMemSave == MsInit /\ CacheOff /\ BhOff /\ RlOff /\ EcsOff /\ LsOff /\ NlOff /\ EnOff /\ McOff /\ GpOff /\ FdOff /\ GfOff /\ KyOff /\ RbOff /\ GiOff /\ JcOff

SpecMemSave == InitMemSave /\ [][MsNext]_vars

InitBackends == RbInit /\ CacheOff /\ BhOff /\ RlOff /\ EcsOff /\ LsOff /\ NlOff /\ EnOff /\ McOff /\ GpOff /\ FdOff /\ GfOff /\ KyOff /\ MsOff /\ GiOff /\ JcOff

SpecBackends == InitBackends /\ [][RbNext]_vars

\* find on any bytes: files cut short, bodies of length zero, varints
\* that go on past the end.
MaxBytes == 4

FdBytes == {0, 1, 2, 10, 67, 128}

FdAnyInit ==
    /\ fdRecs = <<>>
    /\ fdData \in UNION {[1..n -> FdBytes] : n \in 0..MaxBytes}
    /\ fdCode \in {<<>>, <<67>>, <<67, 78>>}
    /\ fdLast = FdIdle

InitFindAny == FdAnyInit /\ CacheOff /\ BhOff /\ RlOff /\ EcsOff /\ LsOff /\ NlOff /\ EnOff /\ McOff /\ GpOff /\ GfOff /\ KyOff /\ MsOff /\ RbOff /\ GiOff /\ JcOff

SpecFindAny == InitFindAny /\ [][FdNext]_vars

InitInline == GiInit /\ CacheOff /\ BhOff /\ RlOff /\ EcsOff /\ LsOff /\ NlOff /\ EnOff /\ McOff /\ GpOff /\ FdOff /\ GfOff /\ KyOff /\ MsOff /\ RbOff /\ JcOff

SpecInline == InitInline /\ [][GiNext]_vars

InitJson == JcInit /\ CacheOff /\ BhOff /\ RlOff /\ EcsOff /\ LsOff /\ NlOff /\ EnOff /\ McOff /\ GpOff /\ FdOff /\ GfOff /\ KyOff /\ MsOff /\ RbOff /\ GiOff

SpecJson == InitJson /\ [][JcNext]_vars

-----------------------------------------------------------------------------
(* Properties *)

Json(m) == [m EXCEPT !.ptr = "json"]

PostStep(p) == pc[p] = "post" /\ pc'[p] = "done"

Busy(k) == {s \in TaskSlots : tasks[s].pc # "free" /\ tasks[s].key = k}

\* C1: on a fresh hit whose cached response the chain left in place, Exec
\* makes no call that writes the backend.
C1_FreshHitAddsNoStore ==
    \A p \in Procs :
        (pc[p] = "done" /\ loc[p].hit = "fresh" /\ ctx[p].R.ptr = "cached")
            => loc[p].saved = "no"

\* C2: at most one lazy-refresh goroutine per key is in flight.
C2_SingleFlight == \A k \in Keys : Cardinality(Busy(k)) <= 1

\* Two calls had a lazy hit on one key and passed doLazyUpdate while the
\* refresh the other one started is still in flight: one goroutine.
C2_Witness ==
    \E p1, p2 \in Procs, s \in TaskSlots :
        /\ p1 # p2
        /\ pc[p1] = "post" /\ pc[p2] = "post"
        /\ loc[p1].hit = "lazy" /\ loc[p2].hit = "lazy"
        /\ loc[p1].key = loc[p2].key
        /\ Busy(loc[p1].key) = {s}
        /\ tasks[s].pc = "run" /\ tasks[s].q.id = p1

\* C3: when the refresh has stored a new response, the call that served the
\* stale one does not write the key again.
C3_StaleNotWrittenBack ==
    [][\A p \in Procs :
          (/\ PostStep(p)
           /\ loc[p].hit = "lazy" /\ ctx[p].R.ptr = "cached"
           /\ \E s \in Busy(loc[p].key) :
                 tasks[s].pc = "forget" /\ tasks[s].saved = "stored")
          => store'[loc[p].key] = store[loc[p].key]]_vars

C7_IdOfQuery ==
    \A p \in Procs :
        (pc[p] \in {"post", "done"} /\ loc[p].hit # "none" /\ ctx[p].R.ptr = "cached")
            => ctx[p].R.id = qry[p].id

\* A hit on an entry stored under another Id.
C7_Witness ==
    \E p \in Procs :
        /\ pc[p] = "post" /\ loc[p].hit # "none" /\ ctx[p].R.ptr = "cached"
        /\ loc[p].item.resp.id # qry[p].id
        /\ ctx[p].R.id = qry[p].id

\* C9: a query that does not carry exactly one question is neither answered
\* from the cache nor written to it.
C9_OnlySingleQuestion ==
    \A p \in Procs :
        Len(qry[p].question) # 1 => (loc[p].hit = "none" /\ loc[p].saved = "no")

\* C10: when the refresh a lazy hit started has failed, the call that started
\* it leaves the stale entry as it is.
C10_FailedRefreshKeepsEntry ==
    [][\A p \in Procs :
          (/\ PostStep(p)
           /\ loc[p].hit = "lazy" /\ ctx[p].R.ptr = "cached"
           /\ \E s \in Busy(loc[p].key) :
                 /\ tasks[s].pc = "forget" /\ tasks[s].q.id = p
                 /\ tasks[s].err /\ tasks[s].saved = "no")
          => store'[loc[p].key] = store[loc[p].key]]_vars


\* The response of c matches the configuration of plugin b: an A or AAAA
\* answer in one of its net lists, or a CNAME answer whose target one of its
\* domain matchers knows.
RespMatches(c, b) ==
    /\ c.R # NoMsg
    /\ \E i \in DOMAIN c.R.answer :
          LET rr == c.R.answer[i]
          IN  \/ rr.rrtype \in {"A", "AAAA"} /\ \E j \in DOMAIN b.nm : rr.data \in b.nm[j]
              \/ rr.rrtype = "CNAME" /\ \E j \in DOMAIN b.dm : rr.data \in b.dm[j]

\* The black hole b has an answer for q: one question, of a type for which
\* addresses are configured.
CanSynthesize(b, q) ==
    /\ Len(q.question) = 1
    /\ \/ q.question[1].qtype = "A" /\ b.ipv4 # <<>>
       \/ q.question[1].qtype = "AAAA" /\ b.ipv6 # <<>>

Synthesized(b, q) ==
    LET t == q.question[1].qtype
        addrs == IF t = "A" THEN b.ipv4 ELSE b.ipv6
    IN  [i \in 1..Len(addrs) |-> [rrtype |-> t, data |-> addrs[i], ttl |-> 300]]

\* C5: after BlackHole.Exec or MatchBlackHole.Exec changed a context that
\* held a response, BlackHoleOrigResp is the response R held before the call
\* and BlackHoleTag is the tag of the plugin that ran.
C5_OrigAndTag ==
    (bhLast.op # "none" /\ bhLast.before.R # NoMsg /\ bhCtx # bhLast.before)
        => /\ bhCtx.orig = bhLast.before.R
           /\ bhCtx.tag = IF bhLast.op = "black_hole" THEN bhCfg.bh.tag
                          ELSE bhCfg.mbh.tag

\* black_hole replaces what resp_match_black_hole had put in the context.
C5_Witness ==
    /\ bhLast.op = "black_hole"
    /\ bhLast.before.tag = bhCfg.mbh.tag /\ bhLast.before.R.ptr = "bh"
    /\ bhLast.before.orig.ptr = "up"
    /\ bhCtx.R.ptr = "bh" /\ bhCtx.orig = bhLast.before.R /\ bhCtx.tag = bhCfg.bh.tag

\* C6 as stated: MatchBlackHole.Exec replaces every matching response, whatever
\* the query type and the black-hole addresses, and leaves any other context
\* unchanged.
C6_ReplacesOnEveryMatch ==
    bhLast.op = "resp_match"
        => IF RespMatches(bhLast.before, bhCfg.mbh)
             THEN bhCtx.R.ptr = "bh" /\ bhCtx.orig = bhLast.before.R
             ELSE bhCtx = bhLast.before

\* C6: MatchBlackHole.Exec replaces a matching response when the black hole
\* has an answer for the query (one question, type A with an IPv4 address
\* configured or type AAAA with an IPv6 address configured), with exactly
\* that answer, and records the prior response; in every other case it
\* leaves the context unchanged.
C6_ReplacesWhenAnswerable ==
    bhLast.op = "resp_match"
        => IF RespMatches(bhLast.before, bhCfg.mbh) /\ CanSynthesize(bhCfg.mbh.blackHole, bhQ)
             THEN /\ bhCtx.R.ptr = "bh"
                  /\ bhCtx.R.answer = Synthesized(bhCfg.mbh.blackHole, bhQ)
                  /\ bhCtx.orig = bhLast.before.R
             ELSE bhCtx = bhLast.before

\* An upstream response with a listed AAAA answer, replaced for an A query.
C6_Witness ==
    /\ bhLast.op = "resp_match"
    /\ bhLast.before.R.ptr = "up"
    /\ \E i \in DOMAIN bhLast.before.R.answer :
          bhLast.before.R.answer[i] = RR("AAAA", Bad6, 60)
    /\ bhQ.question = <<Question(QName, "A")>>
    /\ bhCtx.R.ptr = "bh" /\ bhCtx.orig = bhLast.before.R

\* Calls that hold the return value of a fresh getRespFromCache.
FreshReaders == {p \in Procs : pc[p] = "post" /\ loc[p].hit = "fresh"}

Age(p) == loc[p].readAt - loc[p].item.StoredTime

StoredTtl(p, i) == Sections(loc[p].item.resp)[i].ttl

ReturnedTtl(p, i) == Sections(loc[p].cached)[i].ttl

Records(p) == DOMAIN Sections(loc[p].item.resp)

\* C8 as stated: a fresh read returns every record with its stored TTL less
\* the age of the entry, not below 0, and two fresh reads of one entry return
\* TTLs that differ by the time between them.
C8_TtlDiffersByElapsed ==
    /\ \A p \in FreshReaders : \A i \in Records(p) :
          ReturnedTtl(p, i) = Max(StoredTtl(p, i) - Age(p), 0)
    /\ \A p1, p2 \in FreshReaders :
          (loc[p1].item = loc[p2].item /\ loc[p1].readAt < loc[p2].readAt)
              => \A i \in Records(p1) :
                    ReturnedTtl(p1, i) - ReturnedTtl(p2, i)
                        = loc[p2].readAt - loc[p1].readAt

\* C8: a fresh read returns no negative TTL and returns every record whose
\* stored TTL exceeds the age of the entry with that TTL less the age; two
\* fresh reads of one entry differ by the time between them on every record
\* whose stored TTL exceeds the age at the later read.
C8_TtlAgesUntilZero ==
    /\ \A p \in FreshReaders : \A i \in Records(p) :
          /\ ReturnedTtl(p, i) >= 0
          /\ StoredTtl(p, i) > Age(p) => ReturnedTtl(p, i) = StoredTtl(p, i) - Age(p)
    /\ \A p1, p2 \in FreshReaders :
          (loc[p1].item = loc[p2].item /\ loc[p1].readAt < loc[p2].readAt)
              => \A i \in Records(p1) :
                    StoredTtl(p1, i) > Age(p2)
                        => ReturnedTtl(p1, i) - ReturnedTtl(p2, i)
                               = loc[p2].readAt - loc[p1].readAt

\* Two fresh reads of one entry, the first at the time it was stored and the
\* second one second later, the record still above 0.
C8_Witness ==
    \E p1, p2 \in FreshReaders :
        /\ loc[p1].item = loc[p2].item
        /\ Age(p1) = 0 /\ Age(p2) = 1
        /\ \E i \in Records(p1) :
              StoredTtl(p1, i) = 2 /\ ReturnedTtl(p1, i) = 2 /\ ReturnedTtl(p2, i) = 1


\* Call p enters Exec in this step.
EnterStep(p) == pc[p] \in {"idle", "done"} /\ pc'[p] # pc[p]

\* C11: when the backend does not answer, Exec puts no cached response in the
\* context and runs the chain; what Exec returns is the chain's error,
\* whatever happened to the Get and to the Store.
C11_BackendFailureIsMiss ==
    [][\A p \in Procs :
          /\ (EnterStep(p) /\ ~redisUp)
                => /\ pc'[p] = "post" /\ loc'[p].hit = "none"
                   /\ ctx'[p].R.ptr # "cached"
          /\ PostStep(p) => loc'[p].ret = loc[p].chainErr]_vars

\* The first query finds the server down although the key holds an entry
\* that is not expired; the chain has answered.
C11_Witness ==
    \E p \in Procs :
        /\ started = 1 /\ pc[p] = "post" /\ ~redisUp
        /\ loc[p].hit = "none" /\ ctx[p].R.ptr = "up"
        /\ store[loc[p].key].present
        /\ now < store[loc[p].key].v.ExpirationTime

RlStep == rlSteps' # rlSteps

\* C12: with read_only set no Exec changes the keyspace; without it the
\* keyspace changes only in an Exec of an A or AAAA query whose chain left a
\* response.
C12_ReadOnlyNeverWrites ==
    [][RlStep =>
          /\ rlArgs.readOnly => rlStore' = rlStore
          /\ rlStore' # rlStore
                => /\ rlLast'.q.question[1].qtype \in {"A", "AAAA"}
                   /\ rlLast'.chained /\ rlLast'.ctx.R # NoMsg]_vars

\* A read-only instance has passed an A answer on and holds no entry.
C12_Witness ==
    /\ rlArgs.readOnly /\ rlSteps > 0
    /\ rlLast.q.question[1].qtype = "A" /\ rlLast.ctx.R.ptr = "up"
    /\ rlLast.ctx.R.answer = <<RR("A", V4Addr, 2)>>
    /\ \A k \in RlKeys : ~rlStore[k].present

\* The last Exec passed on a response to an A or AAAA query that holds
\* address a, and its minimum TTL has not elapsed.
RlPassed(a) ==
    /\ ~rlArgs.readOnly /\ rlSteps > 0
    /\ rlLast.q.question[1].qtype \in {"A", "AAAA"}
    /\ rlLast.ctx.R # NoMsg
    /\ \E i \in DOMAIN rlLast.ctx.R.answer :
          rlLast.ctx.R.answer[i].rrtype \in {"A", "AAAA"} /\ rlLast.ctx.R.answer[i].data = a
    /\ rlNow < rlLast.at + GetMinimalTTL(rlLast.ctx.R)

RlPtrQuery(a) == rlLast'.q.question = <<Question(ArpaName(a), "PTR")>>

RlAnswered(n) ==
    /\ ~rlLast'.chained
    /\ rlLast'.ctx.R # NoMsg
    /\ rlLast'.ctx.R.answer = <<RR("PTR", n, 5)>>

\* C13: a PTR query for the reverse name of an address that has just passed
\* in an A or AAAA response is answered with one PTR record to the queried
\* name, TTL 5, without the chain; a PTR query for an address without entry
\* goes to the chain.
C13_ReverseRoundTrip ==
    [][RlStep =>
          \A a \in RlAddrs :
              RlPtrQuery(a) =>
                  /\ RlPassed(a) => RlAnswered(rlLast.q.question[1].name)
                  /\ ~rlStore[AddrString(a)].present => rlLast'.chained]_vars

\* The same for addresses whose two text forms agree.
C13_RoundTripUnmapped ==
    [][RlStep =>
          \A a \in RlAddrs :
              (RlPtrQuery(a) /\ IPString(a) = AddrString(a)) =>
                  /\ RlPassed(a) => RlAnswered(rlLast.q.question[1].name)
                  /\ ~rlStore[AddrString(a)].present => rlLast'.chained]_vars

NotSubnet(o) == o.code # "SUBNET"

\* C14: after clean_up_ecs the option list is the list before it without its
\* EDNS0-SUBNET options, the others in their order.
C14_NoSubnetLeft ==
    ecsLast.op = "clean_up_ecs"
        => ~ecsLast.panicked /\ ecsOpt = SelectSeq(ecsLast.before, NotSubnet)

\* The subnet options the handler appends for question q.
EcsExpected(q) ==
    LET v4 == [code |-> "SUBNET", Family |-> 1, SourceNetmask |-> 24, SourceScope |-> 0,
               Address |-> <<EcsPreset4, 24>>]
        v6 == [code |-> "SUBNET", Family |-> 2, SourceNetmask |-> 48, SourceScope |-> 0,
               Address |-> <<EcsPreset6, 48>>]
    IN  IF q.qtype = "A" THEN <<v4>>
        ELSE IF q.qtype = "AAAA" THEN <<v6>>
        ELSE <<v4, v6>>

\* C15: the handler leaves a list with a subnet option, or of a query of
\* another class than IN, as it is; otherwise it appends the IPv4 subnet for
\* A, the IPv6 subnet for AAAA and both for another type, scope 0; a second
\* run changes nothing.
C15_AddEcsOnce ==
    /\ ecsLast.op = "add_ecs"
          => ecsOpt = IF HasSubnet(ecsLast.before) \/ ecsQ.qclass # "IN"
                        THEN ecsLast.before
                        ELSE ecsLast.before \o EcsExpected(ecsQ)
    /\ addECS(ecsQ, addECS(ecsQ, ecsOpt)) = addECS(ecsQ, ecsOpt)

\* The handler has run twice on a TXT query that came without subnet option:
\* both subnets were appended by the first run, nothing by the second.
C15_Witness ==
    /\ ecsSteps = 2 /\ ecsLast.op = "add_ecs"
    /\ ecsQ = [qtype |-> "TXT", qclass |-> "IN"]
    /\ Len(ecsOpt) = 3 /\ ecsOpt[1].code = "COOKIE"
    /\ SubSeq(ecsOpt, 2, 3) = EcsExpected(ecsQ)
    /\ ecsLast.before = ecsOpt

\* A lease the builder keeps: a valid address and a known hostname.
ValidLease(l) == l.IPAddr.fam # 0 /\ l.Hostname # "*"
ValidV4(l) == ValidLease(l) /\ l.IPAddr.fam = 4
ValidV6(l) == ValidLease(l) /\ l.IPAddr.fam = 6

\* The names a lease of hostname h is to be found under.
LeaseNames(h, suffixs) == {h \o "."} \cup {h \o "." \o sfx \o "." : sfx \in suffixs}

LsBuilt == lsBuild.pc = "idle"

\* C16: after a build, the A query (AAAA for an IPv6 lease) for hostname. and
\* for the hostname under each configured suffix is answered with the
\* address of every valid lease of that hostname.
C16_LeaseReachable ==
    LsBuilt =>
        \A i \in DOMAIN lsLeases :
            ValidLease(lsLeases[i]) =>
                \A n \in LeaseNames(lsLeases[i].Hostname, lsArgs.Suffixs) :
                    LET t == IF lsLeases[i].IPAddr.fam = 4 THEN "A" ELSE "AAAA"
                        r == LeasesExec(LsView(lsMatcher, lsLists),
                                        LsQuestion(PlainName(n), t))
                    IN  /\ ~r.nil
                        /\ \E j \in DOMAIN r.Answer :
                              r.Answer[j].Addr = lsLeases[i].IPAddr

\* C17: after a build the IPv4 list is the valid IPv4 leases, the IPv6 list
\* the valid IPv6 leases, and the PTR query for an address is answered, with
\* hostname., exactly when a valid lease has that address.
C17_ListsPerFamily ==
    LsBuilt =>
        /\ V4List(lsLists) = SelectSeq(lsLeases, ValidV4)
        /\ V6List(lsLists) = SelectSeq(lsLeases, ValidV6)
        /\ \A a \in LsAddrs :
              LET r == LeasesExec(LsView(lsMatcher, lsLists), LsQuestion(ArpaName(a), "PTR"))
                  owners == {i \in DOMAIN lsLeases :
                                ValidLease(lsLeases[i]) /\ lsLeases[i].IPAddr = a}
              IN  IF owners = {} THEN r.nil
                  ELSE /\ ~r.nil
                       /\ \E i \in owners : r.Answer[1].Ptr = lsLeases[i].Hostname \o "."

\* C18: the response of every query is the response the complete build of
\* the lease set before the last batch gives, or that of the lease set after.
C18_OldOrNewView ==
    lsLast.op = "query" =>
        \/ lsLast.r = LeasesExec(buildMatchers(lsLast.old), lsLast.q)
        \/ lsLast.r = LeasesExec(buildMatchers(lsLast.new), lsLast.q)

\* Prefix p covers prefix r: every address of r is an address of p.
Covers(p, r) == p.bits <= r.bits /\ Contains(p, r.base)

\* C19: in a sorted net list no stored prefix is inside or equal to another
\* stored one, and the base addresses ascend.
C19_SortedMinimal ==
    nlSorted =>
        /\ \A i, j \in DOMAIN nlE : i # j => ~Covers(nlE[i], nlE[j])
        /\ \A i, j \in DOMAIN nlE : i < j => nlE[i].base < nlE[j].base

\* Three prefixes went in, two of one base, and the sort kept two entries.
C19_Witness ==
    /\ nlSorted /\ Cardinality(nlInserted) = 3 /\ Len(nlE) = 2
    /\ \E p, r \in nlInserted : p # r /\ p.base = r.base

\* C20: on a sorted net list Match of an address is true exactly when one of
\* the prefixes appended contains the address.
C20_MatchIsMembership ==
    /\ nlSorted =>
          \A addr \in NlAddrs :
              Match(nlE, addr) <=> \E p \in nlInserted : Contains(p, addr)
    /\ nlLast.op = "match" =>
          (nlLast.got <=> \E p \in nlInserted : Contains(p, nlLast.addr))

\* Match found an address through a broader prefix that took the place of
\* the narrower ones appended before it.
C20_Witness ==
    /\ nlLast.op = "match" /\ nlLast.got
    /\ Len(nlE) < Cardinality(nlInserted)
    /\ \E p \in nlInserted : Contains(p, nlLast.addr) /\ \A i \in DOMAIN nlE : nlE[i] # p

\* The entry of the key and whether lazy caching is on.
EnEntry == store[EnKey]
EnLazyOn == args.lazy > 0 \/ args.lazy = -1

\* m and n are the same message but for the TTLs, and every TTL of n is ttl.
SameButTtl(m, n, ttl) ==
    /\ n.rcode = m.rcode /\ n.tc = m.tc
    /\ Len(n.answer) = Len(m.answer) /\ Len(n.ns) = Len(m.ns) /\ Len(n.extra) = Len(m.extra)
    /\ \A i \in DOMAIN Sections(m) :
          /\ Sections(n)[i].rrtype = Sections(m)[i].rrtype
          /\ Sections(n)[i].data = Sections(m)[i].data
          /\ Sections(n)[i].ttl = ttl

\* C23: getRespFromCache on a missing key returns (nil, false); on a fresh
\* entry a response with lazyHit false; on an expired entry still in the
\* store the stored response with every TTL 5 and lazyHit true when lazy
\* caching is on, and (nil, false) when it is off.
C23_ExpiredEntryRead ==
    enLast.op = "get" =>
        IF ~EnEntry.present THEN enLast.resp = NoMsg /\ ~enLast.lazyHit
        ELSE IF now < EnEntry.v.ExpirationTime
          THEN enLast.resp # NoMsg /\ ~enLast.lazyHit
        ELSE IF EnLazyOn
          THEN /\ enLast.lazyHit /\ enLast.resp # NoMsg
               /\ SameButTtl(EnEntry.v.resp, enLast.resp, 5)
        ELSE enLast.resp = NoMsg /\ ~enLast.lazyHit

\* An expired entry was read with lazy caching on.
C23_Witness ==
    /\ enLast.op = "get" /\ enLast.lazyHit
    /\ EnEntry.present /\ now >= EnEntry.v.ExpirationTime
    /\ Len(enLast.resp.answer) = 1 /\ enLast.resp.answer[1].ttl = 5

\* An expired entry, left by a run with lazy caching on, was read with lazy
\* caching off.
C23_WitnessOff ==
    /\ enLast.op = "get" /\ enLast.resp = NoMsg /\ ~EnLazyOn
    /\ EnEntry.present /\ now >= EnEntry.v.ExpirationTime

\* The least TTL of the records of r; 0 when there is none.
LeastTtl(r) ==
    LET ttls == {Sections(r)[i].ttl : i \in DOMAIN Sections(r)}
    IN  IF ttls = {} THEN 0 ELSE CHOOSE t \in ttls : \A u \in ttls : t <= u

\* The message TTL as the rule gives it.
RuleMsgTtl(r) ==
    IF r.rcode = 3 THEN 30
    ELSE IF r.rcode = 2 THEN 5
    ELSE IF r.rcode = 0 /\ r.answer = <<>>
      THEN IF LeastTtl(r) < 300 THEN LeastTtl(r) ELSE 300
    ELSE IF r.rcode = 0 THEN LeastTtl(r)
    ELSE 0

\* C24: a saved entry has StoredTime = now and ExpirationTime = StoredTime +
\* the message TTL of the response (30 NXDOMAIN, 5 SERVFAIL, min(least TTL,
\* 300) NOERROR without answer, least TTL NOERROR with answers), so
\* StoredTime < ExpirationTime in every entry of the store.
C24_ExpirationFromResponse ==
    /\ enLast.op = "save" /\ enLast.saved =>
          /\ EnEntry.present
          /\ EnEntry.v.StoredTime = now
          /\ EnEntry.v.ExpirationTime = now + RuleMsgTtl(enLast.r)
    /\ EnEntry.present => EnEntry.v.StoredTime < EnEntry.v.ExpirationTime

\* An empty NOERROR response whose SOA has TTL 400 was saved with message
\* TTL 300.
C24_Witness ==
    /\ enLast.op = "save" /\ enLast.saved
    /\ enLast.r.rcode = 0 /\ enLast.r.answer = <<>> /\ LeastTtl(enLast.r) = 400
    /\ EnEntry.v.ExpirationTime - EnEntry.v.StoredTime = 300

\* The physical TTL by Rcode: the message TTL for NXDOMAIN and SERVFAIL, the
\* lazy_cache_ttl rule for NOERROR.
RulePhysicalTtl(r, lazy) ==
    IF r.rcode \in {2, 3} THEN RuleMsgTtl(r)
    ELSE IF lazy = -1 THEN -1
    ELSE IF lazy > 0 /\ r.answer # <<>> THEN lazy
    ELSE RuleMsgTtl(r)

\* C25 as stated: the physical TTL of a stored response is KEEP_TTL when
\* lazy_cache_ttl is KEEP_TTL, whatever the Rcode; else lazy_cache_ttl when
\* it is positive and the answer is not empty; else the message TTL.
C25_PhysicalTtl ==
    enLast.op = "save" /\ enLast.saved =>
        enLast.cacheTtl = IF args.lazy = -1 THEN -1
                          ELSE IF args.lazy > 0 /\ enLast.r.answer # <<>> THEN args.lazy
                          ELSE RuleMsgTtl(enLast.r)

\* C25 amended: NXDOMAIN and SERVFAIL are stored for their message TTL
\* whatever lazy_cache_ttl is; for NOERROR the physical TTL is KEEP_TTL when
\* lazy_cache_ttl is KEEP_TTL, else lazy_cache_ttl when it is positive and
\* the answer is not empty, else the message TTL.
C25_PhysicalTtlByRcode ==
    enLast.op = "save" /\ enLast.saved =>
        enLast.cacheTtl = RulePhysicalTtl(enLast.r, args.lazy)

\* An NXDOMAIN response was saved under lazy_cache_ttl = KEEP_TTL with a
\* physical TTL of 30 s.
C25_Witness ==
    /\ enLast.op = "save" /\ enLast.saved /\ enLast.r.rcode = 3
    /\ args.lazy = -1 /\ enLast.cacheTtl = 30
    /\ EnEntry.volatile /\ EnEntry.exp = now + 30

EnSaveStep(r) == enLast' # enLast /\ enLast'.op = "save" /\ enLast'.r = r

\* C26: saveRespToCache of a truncated response, of a response whose message
\* TTL is not positive, or with a physical TTL that is not positive and not
\* KEEP_TTL, reports a skip and leaves the backend as it was.
C26_SkipLeavesBackend ==
    [][\A r \in SaveResponses :
          (/\ EnSaveStep(r)
           /\ \/ r.tc
              \/ RuleMsgTtl(r) <= 0
              \/ (RulePhysicalTtl(r, args.lazy) <= 0 /\ RulePhysicalTtl(r, args.lazy) # -1))
          => ~enLast'.saved /\ store' = store]_vars

\* A truncated response was handed to saveRespToCache while the key held an
\* entry.
C26_Witness ==
    /\ enLast.op = "save" /\ enLast.r.tc /\ ~enLast.saved
    /\ EnEntry.present

\* C27: with store_only Exec makes no lookup, puts no cached response in the
\* context and starts no lazy refresh; it runs the chain in the step it
\* enters and, when the chain left a response, calls saveRespToCache with
\* it: the entry written is that response, stored now.
C27_StoreOnlyWritesOnly ==
    /\ [](args.storeOnly =>
          /\ \A s \in TaskSlots : tasks[s] = FreeTask
          /\ sfm = {}
          /\ \A p \in Procs : /\ pc[p] # "lazy"
                              /\ ~loc[p].read /\ loc[p].hit = "none"
                              /\ ctx[p].R.ptr # "cached")
    /\ [][\A p \in Procs :
             /\ (args.storeOnly /\ EnterStep(p)) => pc'[p] = "post"
             /\ (args.storeOnly /\ PostStep(p)) =>
                  IF ctx[p].R = NoMsg THEN loc'[p].saved = "no" /\ store' = store
                  ELSE /\ loc'[p].saved # "no"
                       /\ IF loc'[p].saved = "stored"
                            THEN /\ store'[loc[p].key].v.resp = Json(ctx[p].R)
                                 /\ store'[loc[p].key].v.StoredTime = now
                            ELSE store' = store]_vars

\* Under store_only a query arrived while its key held an expired entry of
\* an earlier run: the chain has answered and no lookup was made.
C27_Witness ==
    \E p \in Procs :
        /\ args.storeOnly /\ pc[p] = "post" /\ ~loc[p].read
        /\ store[loc[p].key].present /\ now >= store[loc[p].key].v.ExpirationTime
        /\ ctx[p].R.ptr = "up"

\* The refresh goroutine s saves in this step.
RefreshStep(s) == tasks[s].pc = "run" /\ tasks'[s].pc = "forget"

\* C28: when the chain of a lazy refresh ends with BlackHoleOrigResp set,
\* the entry the goroutine writes holds that original response under
\* BlackHoleTag, not the response left in R.
C28_RefreshCachesOriginal ==
    [][\A s \in TaskSlots :
          (RefreshStep(s) /\ tasks'[s].ctx.orig # NoMsg /\ tasks'[s].saved = "stored")
          => /\ store'[tasks[s].key].v.resp = Json(tasks'[s].ctx.orig)
             /\ store'[tasks[s].key].v.BlockHoleTag = tasks'[s].ctx.tag]_vars

\* A call of Get returns in this step.
McGetStep == mcGet # NoGet /\ mcGet' = NoGet

\* C21: once Close has returned, a Store adds no entry, a Get returns no
\* entry, the cleaner makes no sweep, and another Close changes nothing.
C21_ClosedAcceptsNothing ==
    [][mcClosed =>
          /\ \A k \in McKeys : mcM'[k].present => mcM'[k] = mcM[k]
          /\ McGetStep => ~mcLast'.ok
          /\ mcLast'.op # "gc"
          /\ mcLast'.op = "close" => mcM' = mcM /\ mcClosed']_vars

\* The CIDRs of the entries of the file that carry the configured code.
GpAsked == {c \in GeoCidrs : \E i \in DOMAIN gpFile :
                /\ gpFile[i].code = gpCode
                /\ \E j \in DOMAIN gpFile[i].cidr : gpFile[i].cidr[j] = c}

GpBadCidr(c) ==
    \/ c.ip.len \notin {4, 16}
    \/ c.ip.len = 4 /\ c.prefix > 32
    \/ c.ip.len = 16 /\ c.prefix > 128

\* C22: a load of geo IP data ends with an error and without a matcher when
\* an entry with the configured code has an invalid address or a prefix
\* length out of range for its family, or when the file has no entry with
\* the configured code.
C22_BadGeoipFailsInit ==
    (/\ gpLast.loader # "none"
     /\ \/ \E c \in GpAsked : GpBadCidr(c)
        \/ \A i \in DOMAIN gpFile : gpFile[i].code # gpCode)
    => gpLast.err # "none" /\ ~gpLast.matcher.made

\* The records of the file whose code is the code looked for.
FdHits == {i \in DOMAIN fdRecs : fdRecs[i].code = fdCode}

\* C29: on a file of well-formed records find returns the body of the first
\* record whose code has the length and the bytes of the code looked for,
\* and nil when there is none or the code is empty; it never fails.
C29_FindFirstEqualCode ==
    fdLast.op = "find" =>
        IF fdCode = <<>> \/ FdHits = {} THEN fdLast.got = FindNil
        ELSE LET first == CHOOSE i \in FdHits : \A j \in FdHits : i <= j
             IN  /\ fdLast.got.kind = "body"
                 /\ fdLast.got.bytes = <<10, Len(fdCode)>> \o fdCode \o fdRecs[first].payload

\* "CN" was looked for in a file whose first record is "CNX", whose second
\* is "C" and whose third is "CN" with a body of more than 127 bytes; the
\* third body was returned.
C29_Witness ==
    /\ fdLast.op = "find" /\ fdCode = <<67, 78>>
    /\ Len(fdRecs) = 3
    /\ fdRecs[1].code = <<67, 78, 88>> /\ fdRecs[2].code = <<67>>
    /\ fdRecs[3].code = <<67, 78>> /\ Len(fdRecs[3].payload) = 126
    /\ fdLast.got.kind = "body" /\ Len(fdLast.got.bytes) = 130

\* A load of file returns in this step.
GfLoadStep(file) ==
    /\ gfLast'.op = "load" /\ gfLast'.file = file
    /\ <<gfLast, gfReads, gfFileCache, gfIPCache>>' # <<gfLast, gfReads, gfFileCache, gfIPCache>>

\* C30: a load of a file that was read with success since the last Release
\* opens no file, for any code; a load of a file on disk that was not, as
\* after Release, opens it once.
C30_LoadsAreMemoised ==
    [][\A file \in GfFiles :
          GfLoadStep(file) =>
             IF file \in gfLoaded THEN gfReads' = gfReads
             ELSE IF GfDisk(file) # NilBytes THEN gfReads' = gfReads + 1
             ELSE gfReads' = gfReads]_vars

\* C39: when the chain returns an error, Exec returns it and makes no write
\* to the backend, with or without a response in the context.
C39_ChainErrorWritesNothing ==
    [][\A p \in Procs :
          (PostStep(p) /\ loc[p].chainErr)
          => /\ loc'[p].ret
             /\ loc'[p].saved = "no"
             /\ store' = store]_vars

\* C33: two single-question queries that differ in qname, qtype or qclass
\* have different cache keys.
C33_KeysTellQuestionsApart ==
    (kyLast.op = "keys" /\ kyA # kyB) => kyLast.a # kyLast.b

\* C34: an entry saved with a finite physical TTL stays in the store at
\* least until its ExpirationTime.
C34_StoredWhileFresh ==
    (enLast.op = "save" /\ enLast.saved /\ enLast.cacheTtl # -1)
    => /\ enLast.cacheTtl >= EnEntry.v.ExpirationTime - EnEntry.v.StoredTime
       /\ EnEntry.volatile => EnEntry.exp >= EnEntry.v.ExpirationTime

\* C35: when saveRespToCache reports the response saved, the duration it
\* handed to Store is cacheTtl seconds, it is not negative, and the entry
\* of the backend is that response with that lifetime.
C35_LifetimeIsCacheTtl ==
    (msLast.op = "save" /\ msLast.saved)
    => /\ msLast.handed = Seconds64(msLast.cacheTtl)
       /\ ~Negative64(msLast.handed)
       /\ msM = [present |-> TRUE, v |-> msLast.r, life |-> Seconds64(msLast.cacheTtl)]

\* C36: a Get returns no entry past its expiration time, and takes no
\* entry out of the map that has not expired.
C36_GetKeepsFreshEntries ==
    [][McGetStep =>
          /\ mcLast'.ok => mcLast'.e.expirationTime >= mcNow
          /\ \A k \in McKeys :
                (mcM[k].present /\ mcM[k].expirationTime >= mcNow) => mcM'[k] = mcM[k]]_vars

\* The instances that have not been closed.
RbLive == {s \in RbSlots : rbInst[s] # NoInst /\ ~rbInst[s].closed}

\* C37: the live instances of one URL hold the same client, the client of
\* a live instance is open, so that its Get and Store reach the server, and
\* no URL has two open clients.
C37_SharedClientSurvivesClose ==
    /\ \A s, t \in RbLive : rbInst[s].addr = rbInst[t].addr => rbInst[s].client = rbInst[t].client
    /\ \A s \in RbLive : rbClients[rbInst[s].client].open
    /\ (rbLast.op \in {"get", "store"} /\ rbLast.live) => ~rbLast.err
    /\ \A i, j \in DOMAIN rbClients :
          (rbClients[i].open /\ rbClients[j].open /\ rbClients[i].addr = rbClients[j].addr)
          => i = j

\* C40: on every byte string find returns a body or nil; it never indexes
\* past the end of its input.
C40_FindNeverFaults ==
    fdLast.op = "find" => fdLast.got.kind \in {"nil", "body"}

\* The addresses of family fam of the valid leases of hostname h.
LsHostAddrs(h, fam) ==
    {lsLeases[k].IPAddr : k \in {i \in DOMAIN lsLeases :
        ValidLease(lsLeases[i]) /\ lsLeases[i].Hostname = h /\ lsLeases[i].IPAddr.fam = fam}}

\* C38: after a build, when two valid leases share a hostname, the A query
\* for hostname. is answered with exactly the IPv4 addresses of its leases
\* and the AAAA query with exactly their IPv6 addresses, in whatever order
\* the leases stand in the file.
C38_SameHostAllAddresses ==
    LsBuilt =>
        \A i, j \in DOMAIN lsLeases :
            (i # j /\ ValidLease(lsLeases[i]) /\ ValidLease(lsLeases[j])
                   /\ lsLeases[i].Hostname = lsLeases[j].Hostname)
            => LET h  == lsLeases[i].Hostname
                   v  == LsView(lsMatcher, lsLists)
                   a  == LeasesExec(v, LsQuestion(PlainName(h \o "."), "A"))
                   a6 == LeasesExec(v, LsQuestion(PlainName(h \o "."), "AAAA"))
               IN  /\ ~a.nil /\ ~a6.nil
                   /\ {a.Answer[k].Addr : k \in DOMAIN a.Answer} = LsHostAddrs(h, 4)
                   /\ {a6.Answer[k].Addr : k \in DOMAIN a6.Answer} = LsHostAddrs(h, 6)

\* The addresses an inline entry covers.
GiCovered == {a \in NlAddrs : \E i \in DOMAIN giIps : Contains(giIps[i], a)}

\* C31: every list of the matcher the provider hands out is sorted and
\* merged, and the matcher matches every address an inline entry covers.
C31_InlineIpsSortedAndMatched ==
    giMade.made =>
        /\ \A k \in DOMAIN giMade.mg : giMade.mg[k] = SortedMerged(giMade.mg[k])
        /\ (giLast.op = "match" /\ giLast.addr \in GiCovered) => giLast.got

\* m and n have the same Rcode and, section by section, the same records
\* but for the TTLs.
SameButTtls(m, n) ==
    /\ n.rcode = m.rcode
    /\ Len(n.answer) = Len(m.answer) /\ Len(n.ns) = Len(m.ns) /\ Len(n.extra) = Len(m.extra)
    /\ \A i \in DOMAIN Sections(m) :
          /\ Sections(n)[i].rrtype = Sections(m)[i].rrtype
          /\ Sections(n)[i].data = Sections(m)[i].data

\* C32: the response read back from the JSON-encoded cache has the Rcode
\* and the records of the response stored; only TTLs and Id differ.
C32_JsonRoundTrip ==
    (jcLast.op = "get" /\ jcLast.resp # NoMsg) => SameButTtls(jcEntry.v.Resp, jcLast.resp)

====
